---- MODULE Spec2Model ----
(***************************************************************************)
(* Order lifecycle tracking of the Zebpay connector                        *)
(* (zebpay_exchange.py, zebpay_in_flight_order.py).                        *)
(*                                                                         *)
(* The connector runs on one asyncio event loop: code between two awaits   *)
(* is atomic.  _create_order, _execute_cancel, cancel_all and              *)
(* _update_order_status take _order_lock and suspend once, on their REST   *)
(* request; each is a Begin step (up to the await) and an End step (from   *)
(* the response to the release of the lock).  _user_stream_event_listener  *)
(* takes no lock and never suspends while it handles one event, so it is   *)
(* one step that may fall between a Begin and its End.                     *)
(*                                                                         *)
(* Logging calls have no effect on the order state and are left out;       *)
(* expressions evaluated for other calls (event constructors) are kept.    *)
(*                                                                         *)
(* Spec is one connector between start and stop.  SpecRestore adds the     *)
(* restart of the connector from its saved tracking states.  SpecTasks     *)
(* follows one long-lived loop (a websocket feed or a polling loop) through*)
(* its awaits, next to calls of _create_order, _execute_cancel and         *)
(* cancel_all.                                                             *)
(* SpecBook is the order book of one trading pair, fed with the snapshot   *)
(* and diff messages the data source builds.  SpecRest follows the hourly  *)
(* snapshot loop and get_tracking_pairs through their awaits.              *)
(* SpecApi is _api_request, call by call.  SpecGetBook adds get_order_book *)
(* to the operations on the order book.  SpecNamespace is the socket.io    *)
(* namespace with the events delivered to it.  SpecPoll is the clock side  *)
(* of the status poll (tick, the notifier, the polling loop).  SpecNetwork *)
(* is start_network and stop_network with the tasks they create and        *)
(* cancel.  The REST responses and the frames of the feeds are inputs of   *)
(* the steps that receive them.                                            *)
(***************************************************************************)
EXTENDS Integers, Sequences, FiniteSets, TLC

VARIABLES
    orders,            \* client order id -> the ZebpayInFlightOrder object (None before creation)
    in_flight_orders,  \* keys of self._in_flight_orders, in insertion order
    events,            \* client order id -> number of events triggered, per event tag
    order_lock,        \* self._order_lock is held
    pc,                \* the coroutine suspended inside the lock, if any
    issued,            \* client order ids handed out by buy()/sell()
    ret,               \* how the last finished call ended
    ops,               \* number of calls and stream events so far
    task,              \* the long-lived loop under observation and its suspension point
    output,            \* types of the messages the loop has put on its output queue
    order_book,        \* the order book of one trading pair: bids, asks and ordering token
    namespace,         \* the socket.io namespace: which queues are bound, and what was put on them
    poll,              \* the clock side of the status poll: last tick, notifier, last user-stream frame
    network            \* trading_required, the four task handles and every task created so far

vars == <<ops, pc, ret, order_lock, issued, task, output, order_book, namespace, poll, network,
          in_flight_orders, events, orders>>

----------------------------------------------------------------------------
(* Bounds and input domains *)

MaxOps == 6

OrderIds == {"o1"}

None == "None"

FillIds == {"f1", "f2"}

\* the fields "q", "p", "f", "a" of the fill with id "i"
FillQuantity(f) == IF f = "f1" THEN 4 ELSE 6
FillPrice(f) == IF f = "f1" THEN 2 ELSE 3
FillFee(f) == IF f = "f1" THEN 1 ELSE 2
FillFeeAsset(f) == IF f = "f1" THEN "INR" ELSE "DAI"

\* "F"/"fills" of an order message: a list of at most two fills, or absent
NoFills == <<"absent">>

FillLists == {<<>>} \cup {<<f>> : f \in FillIds} \cup {<<f, g>> : f \in FillIds, g \in FillIds}

Statuses == {"open", "partiallyFilled", "filled", "canceled", "cancelled", "rejected"}

Amounts == {4, 10}

TradeTypes == {"BUY", "SELL"}

OrderTypes == {"LIMIT", "MARKET"}

TradingPairs == {"DAI-INR"}

Prices == {3}

\* the "id" of the response to the create request for client order id o
ExchangeOrderId(o) == IF o = "o1" THEN "e1" ELSE "e2"

\* the TradingRule of the trading pair, as _format_trading_rules builds it
trading_rule == [min_order_size |-> 4, max_order_size |-> 10]

EventTags == {"created", "filled", "completed", "cancelled", "failure"}

NoEvents == [t \in EventTags |-> 0]

Idle == [op |-> "idle"]

\* no order book has been created yet
NoBook == [bids |-> {}, asks |-> {}, token |-> -1]

\* the namespace after construction: no queue is bound
NoNamespace == [diff_bound |-> FALSE, trade_bound |-> FALSE, diff_queue |-> <<>>, trade_queue |-> <<>>]

\* the exchange after construction, as far as tick reads and writes it:
\* _last_timestamp is 0, the notifier is clear, no user-stream frame was
\* received (last_recv_time 0); polls counts the status polls run
NoPoll == [last_timestamp |-> 0, poll_notifier |-> FALSE, last_recv_time |-> 0, polls |-> 0]

TaskKinds == {"status_polling", "trading_rules_polling", "user_stream_tracker", "user_stream_event_listener"}

\* the exchange after construction, as far as start_network and
\* stop_network read and write it: every task handle is None (the empty
\* sequence), no task was created
NoNetwork == [trading_required |-> TRUE, handles |-> [k \in TaskKinds |-> <<>>], tasks |-> {}, order_book_tracker |-> "stopped"]

NoRet == [op |-> "none", id |-> None, result |-> None, tracked |-> FALSE,
          delete_outcome |-> None, updated |-> <<>>, cancellations |-> {}]

----------------------------------------------------------------------------
(* ZebpayInFlightOrder *)

NewOrder(order_id, exchange_order_id, trading_pair, trade_type, price, amount, order_type) ==
    [client_order_id |-> order_id,
     exchange_order_id |-> exchange_order_id,
     trading_pair |-> trading_pair,
     last_state |-> "open",
     price |-> price,
     amount |-> amount,
     trade_type |-> trade_type,
     order_type |-> order_type,
     executed_amount_base |-> 0,
     executed_amount_quote |-> 0,
     fee_paid |-> 0,
     fee_asset |-> None,
     fill_id_set |-> {},
     cancelled_event |-> FALSE]

is_done(order) == order.last_state \in {"filled", "canceled", "rejected"}

\* a variant that also takes the status "canceled" for a failure
is_failure_Canceled(order) == order.last_state \in {"rejected", "canceled"}

is_failure(order) == order.last_state \in {"rejected"}

is_cancelled(order) == order.last_state \in {"cancelled"}

\* a variant that does not look the fill id up before applying the fill
update_with_fill_update_NoDedup(order, f) ==
    [order |-> [order EXCEPT
                  !.fill_id_set = @ \cup {f},
                  !.executed_amount_base = @ + FillQuantity(f),
                  !.fee_paid = @ + FillFee(f),
                  !.executed_amount_quote = @ + FillPrice(f) * FillQuantity(f),
                  !.fee_asset = IF @ = None THEN FillFeeAsset(f) ELSE @],
     updated |-> TRUE]

update_with_fill_update(order, f) ==
    IF f \in order.fill_id_set
    THEN [order |-> order, updated |-> FALSE]
    ELSE [order |-> [order EXCEPT
                       !.fill_id_set = @ \cup {f},
                       !.executed_amount_base = @ + FillQuantity(f),
                       !.fee_paid = @ + FillFee(f),
                       !.executed_amount_quote = @ + FillPrice(f) * FillQuantity(f),
                       !.fee_asset = IF @ = None THEN FillFeeAsset(f) ELSE @],
          updated |-> TRUE]

----------------------------------------------------------------------------
(* The in-flight table and the event bus.                                  *)
(* A table state S is a record [orders, in_flight_orders, events, updated];*)
(* updated collects what update_with_fill_update returned.                 *)

Keys(seq) == {seq[i] : i \in 1..Len(seq)}

RECURSIVE Without(_, _)
Without(seq, o) ==
    IF seq = <<>> THEN <<>>
    ELSE IF Head(seq) = o THEN Without(Tail(seq), o)
    ELSE <<Head(seq)>> \o Without(Tail(seq), o)

stop_tracking_order(S, o) ==
    IF o \in Keys(S.in_flight_orders)
    THEN [S EXCEPT !.in_flight_orders = Without(@, o)]
    ELSE S

trigger_event(S, tag, o) == [S EXCEPT !.events[o][tag] = @ + 1]

Cur == [orders |-> orders, in_flight_orders |-> in_flight_orders,
        events |-> events, updated |-> <<>>]

\* math.isclose with the relative tolerance NORMALIZED_PRECISION: on the
\* integer amounts of the model two amounts are close only when equal
IsClose(a, b) == a = b

\* the for loop of _process_fill_message from position i on; returned is
\* TRUE when the loop left the whole function through "return"
RECURSIVE FillLoop(_, _, _, _)
FillLoop(S, o, fills, i) ==
    IF i > Len(fills) THEN [S |-> S, returned |-> FALSE]
    ELSE LET r == update_with_fill_update(S.orders[o], fills[i])
             S1 == [S EXCEPT !.orders[o] = r.order,
                             !.updated = Append(@, r.updated)]
         IN IF ~r.updated
            THEN [S |-> S1, returned |-> TRUE]
            ELSE FillLoop(trigger_event(S1, "filled", o), o, fills, i + 1)

process_fill_message(S, m) ==
    IF m.c \notin Keys(S.in_flight_orders) THEN S
    ELSE LET l == IF m.fills # NoFills
                  THEN FillLoop(S, m.c, m.fills, 1)
                  ELSE [S |-> S, returned |-> FALSE]
             tracked_order == l.S.orders[m.c]
         IN IF l.returned THEN l.S
            ELSE IF IsClose(tracked_order.executed_amount_base, tracked_order.amount)
                    \/ tracked_order.executed_amount_base >= tracked_order.amount
            THEN stop_tracking_order(
                     trigger_event([l.S EXCEPT !.orders[m.c].last_state = "filled"],
                                   "completed", m.c),
                     m.c)
            ELSE l.S

process_order_message(S, m) ==
    IF m.c \notin Keys(S.in_flight_orders) THEN S
    ELSE LET S1 == [S EXCEPT !.orders[m.c].last_state = m.status]
         IN IF is_cancelled(S1.orders[m.c])
            THEN stop_tracking_order(
                     [trigger_event(S1, "cancelled", m.c)
                        EXCEPT !.orders[m.c].cancelled_event = TRUE],
                     m.c)
            ELSE IF is_failure(S1.orders[m.c])
            THEN stop_tracking_order(trigger_event(S1, "failure", m.c), m.c)
            ELSE S1

\* the order messages the exchange can send about one order
OrderMessages(o) == [c : {o}, fills : FillLists \cup {NoFills}, status : Statuses]

Install(S) ==
    /\ orders' = S.orders
    /\ in_flight_orders' = S.in_flight_orders
    /\ events' = S.events

----------------------------------------------------------------------------
(* _user_stream_event_listener, one 'orders' event *)

UserStreamEvent ==
    /\ ops < MaxOps
    /\ \E o \in OrderIds : \E m \in OrderMessages(o) :
         LET S2 == process_order_message(process_fill_message(Cur, m), m)
         IN /\ Install(S2)
            /\ ret' = [NoRet EXCEPT !.op = "stream", !.id = o, !.updated = S2.updated]
    /\ ops' = ops + 1
    /\ UNCHANGED <<order_lock, pc, issued>>
    /\ UNCHANGED <<task, output, order_book, namespace, poll, network>>

----------------------------------------------------------------------------
(* _create_order *)

\* lines 540-566: what happens before the create request is sent
CreateCheck(trade_type, order_type, amount) ==
    IF order_type # "LIMIT" THEN "Exception"
    ELSE IF amount < trading_rule.min_order_size THEN "ValueError"
    ELSE IF amount < trading_rule.max_order_size THEN "ValueError"
    ELSE IF trade_type # "BUY" THEN "UnboundLocalError"
    ELSE "request"

start_tracking_order(S, order_id, exchange_order_id, trading_pair, trade_type, price, amount, order_type) ==
    [S EXCEPT !.orders[order_id] = NewOrder(order_id, exchange_order_id, trading_pair,
                                            trade_type, price, amount, order_type),
              !.in_flight_orders = IF order_id \in Keys(@) THEN @ ELSE Append(@, order_id)]

\* lines 598-610, entered with trade_type still a TradeType
CreateFailed(S, o) == stop_tracking_order(trigger_event(S, "failure", o), o)

\* the call fails before it suspends
CreateOrderRejected ==
    /\ ops < MaxOps
    /\ ~order_lock
    /\ \E o \in OrderIds \ issued, tt \in TradeTypes, ot \in OrderTypes, a \in Amounts :
         LET check == CreateCheck(tt, ot, a)
         IN /\ check # "request"
            /\ issued' = issued \cup {o}
            /\ IF check = "UnboundLocalError"
               \* line 558 has rebound trade_type to "ask": trade_type.name
               \* raises AttributeError inside the handler
               THEN /\ ret' = [NoRet EXCEPT !.op = "create", !.id = o,
                                            !.result = "raised_AttributeError"]
                              @@ [check |-> check, order_type |-> ot, amount |-> a]
                    /\ UNCHANGED <<orders, in_flight_orders, events>>
               ELSE /\ Install(CreateFailed(Cur, o))
                    /\ ret' = [NoRet EXCEPT !.op = "create", !.id = o,
                                            !.result = "returned_None"]
                              @@ [check |-> check, order_type |-> ot, amount |-> a]
    /\ ops' = ops + 1
    /\ UNCHANGED <<order_lock, pc>>
    /\ UNCHANGED <<task, output, order_book, namespace, poll, network>>

\* a variant that starts tracking the order, without an exchange order id,
\* before it sends the create request
CreateOrderBegin_TrackFirst ==
    /\ ops < MaxOps
    /\ ~order_lock
    /\ \E o \in OrderIds \ issued, tt \in TradeTypes, ot \in OrderTypes, a \in Amounts,
          tp \in TradingPairs, p \in Prices :
         /\ CreateCheck(tt, ot, a) = "request"
         /\ issued' = issued \cup {o}
         /\ pc' = [op |-> "create", id |-> o, trading_pair |-> tp, price |-> p,
                   amount |-> a, trade_type |-> tt, order_type |-> ot]
         /\ Install(start_tracking_order(Cur, o, None, tp, tt, p, a, ot))
    /\ order_lock' = TRUE
    /\ ops' = ops + 1
    /\ UNCHANGED ret
    /\ UNCHANGED <<task, output, order_book, namespace, poll, network>>

\* lines 538-568: the checks pass and the call awaits the create request
CreateOrderBegin ==
    /\ ops < MaxOps
    /\ ~order_lock
    /\ \E o \in OrderIds \ issued, tt \in TradeTypes, ot \in OrderTypes, a \in Amounts,
          tp \in TradingPairs, p \in Prices :
         /\ CreateCheck(tt, ot, a) = "request"
         /\ issued' = issued \cup {o}
         /\ pc' = [op |-> "create", id |-> o, trading_pair |-> tp, price |-> p,
                   amount |-> a, trade_type |-> tt, order_type |-> ot]
    /\ order_lock' = TRUE
    /\ ops' = ops + 1
    /\ UNCHANGED <<orders, in_flight_orders, events, ret>>
    /\ UNCHANGED <<task, output, order_book, namespace, poll, network>>

CreateOutcomes == {"ok", "IOError", "CancelledError"}

CreateOrderEnd ==
    /\ pc.op = "create"
    /\ \E outcome \in CreateOutcomes :
         CASE outcome = "ok" ->
                /\ Install(trigger_event(
                       start_tracking_order(Cur, pc.id, ExchangeOrderId(pc.id), pc.trading_pair,
                                            pc.trade_type, pc.price, pc.amount,
                                            pc.order_type),
                       "created", pc.id))
                /\ ret' = [NoRet EXCEPT !.op = "create", !.id = pc.id,
                                        !.result = "returned_None", !.tracked = TRUE]
           [] outcome = "IOError" ->
                /\ Install(CreateFailed(Cur, pc.id))
                /\ ret' = [NoRet EXCEPT !.op = "create", !.id = pc.id,
                                        !.result = "returned_None"]
           [] outcome = "CancelledError" ->
                /\ ret' = [NoRet EXCEPT !.op = "create", !.id = pc.id,
                                        !.result = "raised_CancelledError"]
                /\ UNCHANGED <<orders, in_flight_orders, events>>
    /\ order_lock' = FALSE
    /\ pc' = Idle
    /\ UNCHANGED <<issued, ops>>
    /\ UNCHANGED <<task, output, order_book, namespace, poll, network>>

----------------------------------------------------------------------------
(* _execute_cancel *)

\* how the awaited delete_order can end: a response whose statusDescription
\* is "success" or something else, an IOError of _api_request whose message
\* contains "order not found" or does not, an exception that is not an
\* IOError, or the cancellation of the task
DeleteOutcomes == {"success", "non_success", "IOError_order_not_found", "IOError",
                   "Exception", "CancelledError"}

\* lines 400-402 and 422-433 for a client order id that is not tracked:
\* the IOError "order not found" is handled by stop_tracking_order and by
\* building OrderCancelledEvent from tracked_order, which is None
ExecuteCancelUntracked ==
    /\ ops < MaxOps
    /\ ~order_lock
    /\ \E o \in OrderIds :
         /\ o \notin Keys(in_flight_orders)
         /\ Install(stop_tracking_order(Cur, o))
         /\ ret' = [NoRet EXCEPT !.op = "cancel", !.id = o,
                                 !.result = "raised_AttributeError"]
    /\ ops' = ops + 1
    /\ UNCHANGED <<order_lock, pc, issued>>
    /\ UNCHANGED <<task, output, order_book, namespace, poll, network>>

ExecuteCancelBegin ==
    /\ ops < MaxOps
    /\ ~order_lock
    /\ \E o \in Keys(in_flight_orders) :
         pc' = [op |-> "cancel", id |-> o]
    /\ order_lock' = TRUE
    /\ ops' = ops + 1
    /\ UNCHANGED <<orders, in_flight_orders, events, issued, ret>>
    /\ UNCHANGED <<task, output, order_book, namespace, poll, network>>

CancelSucceeded(S, o) ==
    [trigger_event(stop_tracking_order(S, o), "cancelled", o)
       EXCEPT !.orders[o].cancelled_event = TRUE]

\* a variant that stops tracking without publishing the cancellation
CancelNotFound_NoEvent(S, o) == stop_tracking_order(S, o)

CancelNotFound(S, o) == trigger_event(stop_tracking_order(S, o), "cancelled", o)

\* a variant that takes any response for a success acknowledgment
CancelEffect_AnyResponse(S, o, outcome) ==
    CASE outcome \in {"success", "non_success"} -> CancelSucceeded(S, o)
      [] outcome = "IOError_order_not_found" -> CancelNotFound(S, o)
      [] OTHER -> S

\* lines 405-449: what the call does to the table once delete_order has ended
CancelEffect(S, o, outcome) ==
    CASE outcome = "success" -> CancelSucceeded(S, o)
      [] outcome = "IOError_order_not_found" -> CancelNotFound(S, o)
      [] OTHER -> S

\* a variant whose IOError handler logs and returns instead of raising
CancelResult_Swallow(outcome) ==
    CASE outcome \in {"success", "IOError_order_not_found"} -> "returned_id"
      [] outcome \in {"non_success", "IOError", "Exception"} -> "returned_None"
      [] outcome = "CancelledError" -> "raised_CancelledError"

\* lines 405-449: how the call ends
CancelResult(outcome) ==
    CASE outcome \in {"success", "IOError_order_not_found"} -> "returned_id"
      [] outcome \in {"non_success", "IOError"} -> "raised_IOError"
      [] outcome = "Exception" -> "returned_None"
      [] outcome = "CancelledError" -> "raised_CancelledError"

ExecuteCancelEnd ==
    /\ pc.op = "cancel"
    /\ \E outcome \in DeleteOutcomes :
         /\ Install(CancelEffect(Cur, pc.id, outcome))
         /\ ret' = [NoRet EXCEPT !.op = "cancel", !.id = pc.id, !.tracked = TRUE,
                                 !.delete_outcome = outcome,
                                 !.result = CancelResult(outcome)]
    /\ order_lock' = FALSE
    /\ pc' = Idle
    /\ UNCHANGED <<issued, ops>>
    /\ UNCHANGED <<task, output, order_book, namespace, poll, network>>

----------------------------------------------------------------------------
(* _update_order_status *)

Exception == [c |-> "Exception", fills |-> NoFills, status |-> None]

\* what safe_gather(..., return_exceptions=True) can hold for get_order of o
GetOrderResults(o) == OrderMessages(o) \cup {Exception}

\* lines 722-736 from position i of tracked_order_result on
RECURSIVE StatusLoop(_, _, _, _)
StatusLoop(S, tracked_orders, update_results, i) ==
    IF i > Len(tracked_orders) THEN S
    ELSE LET o == tracked_orders[i]
             result == update_results[i]
         IN IF result = Exception
            THEN StatusLoop(trigger_event(stop_tracking_order(S, o), "failure", o),
                            tracked_orders, update_results, i + 1)
            ELSE StatusLoop(process_order_message(process_fill_message(S, result), result),
                            tracked_orders, update_results, i + 1)

UpdateOrderStatusBegin ==
    /\ ops < MaxOps
    /\ ~order_lock
    /\ Len(in_flight_orders) > 0
    /\ pc' = [op |-> "poll", tracked_orders |-> in_flight_orders]
    /\ order_lock' = TRUE
    /\ ops' = ops + 1
    /\ UNCHANGED <<orders, in_flight_orders, events, issued, ret>>
    /\ UNCHANGED <<task, output, order_book, namespace, poll, network>>

UpdateOrderStatusEnd ==
    /\ pc.op = "poll"
    /\ \E update_results \in
            {r \in [1..Len(pc.tracked_orders) -> UNION {GetOrderResults(o) : o \in OrderIds}] :
                \A i \in 1..Len(pc.tracked_orders) : r[i] \in GetOrderResults(pc.tracked_orders[i])} :
         LET S1 == StatusLoop(Cur, pc.tracked_orders, update_results, 1)
         IN /\ Install(S1)
            /\ ret' = [NoRet EXCEPT !.op = "poll", !.updated = S1.updated]
    /\ order_lock' = FALSE
    /\ pc' = Idle
    /\ UNCHANGED <<issued, ops>>
    /\ UNCHANGED <<task, output, order_book, namespace, poll, network>>

----------------------------------------------------------------------------
(* cancel_all *)

\* what safe_gather can hold for one delete_order: an exception, or the
\* value _api_request returns, which is a parsed JSON object with "code" 0
\* (lines 333-344), so never empty and never indexable by 0
DeleteOrderResults == {"exception", "dict"}

\* lines 843-875 from position i of incomplete_order_result on; raised is
\* TRUE when result[0] raised KeyError, which ends the loop at line 880
RECURSIVE CancelAllLoop(_, _, _, _, _)
CancelAllLoop(S, incomplete_orders, results, i, successful) ==
    IF i > Len(incomplete_orders) THEN [S |-> S, successful |-> successful]
    ELSE LET o == incomplete_orders[i]
         IN CASE results[i] = "exception" ->
                   CancelAllLoop(S, incomplete_orders, results, i + 1, successful)
              [] results[i] = "dict" ->
                   [S |-> S, successful |-> successful \cup {o}]
              [] results[i] = "empty" ->
                   CancelAllLoop(CancelSucceeded(S, o), incomplete_orders, results, i + 1,
                                 successful \cup {o})

RECURSIVE Incomplete(_, _)
Incomplete(S, seq) ==
    IF seq = <<>> THEN <<>>
    ELSE IF is_done(S.orders[Head(seq)]) THEN Incomplete(S, Tail(seq))
    ELSE <<Head(seq)>> \o Incomplete(S, Tail(seq))

CancellationResults(successful, failed) ==
    {[order_id |-> o, success |-> TRUE] : o \in successful}
        \cup {[order_id |-> o, success |-> FALSE] : o \in failed}

CancelAllBegin ==
    /\ ops < MaxOps
    /\ ~order_lock
    /\ pc' = [op |-> "cancel_all", incomplete_orders |-> Incomplete(Cur, in_flight_orders)]
    /\ order_lock' = TRUE
    /\ ops' = ops + 1
    /\ UNCHANGED <<orders, in_flight_orders, events, issued, ret>>
    /\ UNCHANGED <<task, output, order_book, namespace, poll, network>>

CancelAllEnd ==
    /\ pc.op = "cancel_all"
    /\ \E results \in [1..Len(pc.incomplete_orders) -> DeleteOrderResults] :
         LET l == CancelAllLoop(Cur, pc.incomplete_orders, results, 1, {})
         IN /\ Install(l.S)
            /\ ret' = [NoRet EXCEPT !.op = "cancel_all",
                          !.cancellations = CancellationResults(
                              l.successful, Keys(pc.incomplete_orders) \ l.successful)]
    /\ order_lock' = FALSE
    /\ pc' = Idle
    /\ UNCHANGED <<issued, ops>>
    /\ UNCHANGED <<task, output, order_book, namespace, poll, network>>

\* the timeout of line 840 expires while the delete requests are awaited
CancelAllTimeout ==
    /\ pc.op = "cancel_all"
    /\ ret' = [NoRet EXCEPT !.op = "cancel_all",
                  !.cancellations = CancellationResults({}, Keys(pc.incomplete_orders))]
    /\ order_lock' = FALSE
    /\ pc' = Idle
    /\ UNCHANGED <<orders, in_flight_orders, events, issued, ops>>
    /\ UNCHANGED <<task, output, order_book, namespace, poll, network>>

----------------------------------------------------------------------------
(* tracking_states, restore_tracking_states and the JSON form of an order *)

\* str() of a non-negative whole Decimal: its decimal digits
RECURSIVE DecimalToStr(_)
DecimalToStr(n) ==
    IF n < 10 THEN <<n>> ELSE Append(DecimalToStr(n \div 10), n % 10)

\* Decimal() of a string of decimal digits
RECURSIVE StrToDecimal(_)
StrToDecimal(digits) ==
    IF digits = <<>> THEN 0
    ELSE 10 * StrToDecimal(SubSeq(digits, 1, Len(digits) - 1)) + digits[Len(digits)]

\* getattr(OrderType, name) and getattr(TradeType, name): the member of the
\* enumeration that has this name
getattr(members, name) == CHOOSE member \in members : member = name

\* InFlightOrderBase.to_json: the flat record of the persisted state layout
to_json(order) ==
    [client_order_id |-> order.client_order_id,
     exchange_order_id |-> order.exchange_order_id,
     trading_pair |-> order.trading_pair,
     order_type |-> order.order_type,
     trade_type |-> order.trade_type,
     price |-> DecimalToStr(order.price),
     amount |-> DecimalToStr(order.amount),
     executed_amount_base |-> DecimalToStr(order.executed_amount_base),
     executed_amount_quote |-> DecimalToStr(order.executed_amount_quote),
     fee_asset |-> order.fee_asset,
     fee_paid |-> DecimalToStr(order.fee_paid),
     last_state |-> order.last_state]

\* a variant that does not read the executed base amount back
from_json_NoExecutedBase(data) ==
    [NewOrder(data.client_order_id, data.exchange_order_id, data.trading_pair,
              getattr(TradeTypes, data.trade_type), StrToDecimal(data.price),
              StrToDecimal(data.amount), getattr(OrderTypes, data.order_type))
       EXCEPT !.executed_amount_quote = StrToDecimal(data.executed_amount_quote),
              !.fee_asset = data.fee_asset,
              !.fee_paid = StrToDecimal(data.fee_paid),
              !.last_state = data.last_state]

from_json(data) ==
    [NewOrder(data.client_order_id, data.exchange_order_id, data.trading_pair,
              getattr(TradeTypes, data.trade_type), StrToDecimal(data.price),
              StrToDecimal(data.amount), getattr(OrderTypes, data.order_type))
       EXCEPT !.executed_amount_base = StrToDecimal(data.executed_amount_base),
              !.executed_amount_quote = StrToDecimal(data.executed_amount_quote),
              !.fee_asset = data.fee_asset,
              !.fee_paid = StrToDecimal(data.fee_paid),
              !.last_state = data.last_state]

\* the dictionary tracking_states, as the sequence of its items
RECURSIVE tracking_states(_, _)
tracking_states(S, keys) ==
    IF keys = <<>> THEN <<>>
    ELSE IF is_done(S.orders[Head(keys)]) THEN tracking_states(S, Tail(keys))
    ELSE <<[key |-> Head(keys), value |-> to_json(S.orders[Head(keys)])]>>
            \o tracking_states(S, Tail(keys))

\* self._in_flight_orders.update(...) with the items of saved_states
RECURSIVE restore_tracking_states(_, _)
restore_tracking_states(S, saved_states) ==
    IF saved_states = <<>> THEN S
    ELSE LET item == Head(saved_states)
         IN restore_tracking_states(
                [S EXCEPT !.orders[item.key] = from_json(item.value),
                          !.in_flight_orders =
                              IF item.key \in Keys(@) THEN @ ELSE Append(@, item.key)],
                Tail(saved_states))

\* the connector is stopped, at any point, and a new connector object is
\* given the tracking states that the old one reported last
RestoreTrackingStates ==
    /\ ops < MaxOps
    /\ Install(restore_tracking_states([Cur EXCEPT !.in_flight_orders = <<>>],
                                       tracking_states(Cur, in_flight_orders)))
    /\ ret' = [NoRet EXCEPT !.op = "restore"]
    /\ order_lock' = FALSE
    /\ pc' = Idle
    /\ ops' = ops + 1
    /\ UNCHANGED issued
    /\ UNCHANGED <<task, output, order_book, namespace, poll, network>>

----------------------------------------------------------------------------
(* cancel_all, when its task is cancelled while the delete requests are    *)
(* awaited (lines 876-879)                                                 *)

CancelAllCancelled ==
    /\ pc.op = "cancel_all"
    /\ ret' = [NoRet EXCEPT !.op = "cancel_all", !.result = "raised_CancelledError"]
    /\ order_lock' = FALSE
    /\ pc' = Idle
    /\ UNCHANGED <<orders, in_flight_orders, events, issued, ops>>
    /\ UNCHANGED <<task, output, order_book, namespace, poll, network>>

----------------------------------------------------------------------------
(* The long-lived loops: listen_for_trades, listen_for_order_book_diffs,   *)
(* listen_for_user_stream, listen_for_order_book_snapshots,                *)
(* _status_polling_loop, _trading_rules_polling_loop and                   *)
(* _user_stream_event_listener.  Each is "while True: try: ... except      *)
(* CancelledError: raise; except Exception: log; sleep".  task.pc is the   *)
(* await at which the loop is suspended.                                   *)

FeedKinds == {"trades", "diffs", "user_stream"}

LoopKinds == FeedKinds \cup {"snapshots", "status_polling", "trading_rules", "event_listener"}

\* the frame has no "type" field
NoType == "no_type"

\* the "type" of a websocket frame
FrameTypes == {NoType, "error", "trades", "l2orderbook", "subscriptions", "open", "match",
               "change", "done", "received", "activate", "orders", "heartbeat"}

\* the sleep of the "except Exception" handler of the three feeds, in seconds
RETRY_DELAY == 30

\* the wait for a frame and the wait for a pong, in seconds
MESSAGE_TIMEOUT == 30
PING_TIMEOUT == 10

\* where a frame carries its timestamp: at msg["lastModifiedDate"], at
\* msg["data"]["t"], or nowhere
Stamps == {"lastModifiedDate", "data.t", "none"}

\* ws is the websocket of the feed ("none" before the first connection),
\* timeout the time limit of the wait the task is suspended in, frame the
\* type of the last frame and stamp where it had its timestamp, if the
\* loop body looked for it
NoTask == [kind |-> "none", pc |-> "none", last |-> None, frame |-> None, stamp |-> None,
           sleep_for |-> 0, ws |-> "none", timeout |-> 0]

\* the first await of a loop
FirstAwait(kind) == IF kind \in FeedKinds THEN "connect" ELSE "body"

StartTask(kind) == [NoTask EXCEPT !.kind = kind, !.pc = FirstAwait(kind)]

\* a variant that ignores a frame whose type it does not know
HandleFrame_SkipUnknown(kind, type) ==
    CASE type \in {NoType, "error"} -> "raise"
      [] kind = "trades" /\ type = "trades" -> "put"
      [] kind = "diffs" /\ type = "l2orderbook" -> "put"
      [] kind = "user_stream" /\ type \in {"open", "match", "change", "done"} -> "put"
      [] OTHER -> "skip"

\* the body of "async for raw_msg in self._inner_messages(ws)" for a frame
\* of this type: the message is put on the output queue, nothing is done, or
\* ValueError is raised
HandleFrame(kind, type) ==
    CASE type \in {NoType, "error"} -> "raise"
      [] kind = "trades" /\ type = "trades" -> "put"
      [] kind = "diffs" /\ type = "l2orderbook" -> "put"
      [] kind \in {"trades", "diffs"} /\ type = "subscriptions" -> "skip"
      [] kind = "user_stream" /\ type \in {"open", "match", "change", "done"} -> "put"
      [] kind = "user_stream" /\ type \in {"received", "activate", "subscriptions"} -> "skip"
      [] OTHER -> "raise"

\* the timestamp field a feed reads from a frame it puts on the queue: the
\* trade feed msg["lastModifiedDate"], the diff feed msg["data"]["t"], the
\* user stream content["data"]["t"] (ZebpayOrderBookMessage.__new__, as
\* diff_message_from_exchange is called without a timestamp)
StampRead(kind) == IF kind = "trades" THEN "lastModifiedDate" ELSE "data.t"

\* the loop body for one frame: a frame to be put on the queue whose
\* timestamp field is missing raises KeyError
ParseFrame(kind, type, stamp) ==
    IF HandleFrame(kind, type) = "put" /\ stamp # StampRead(kind)
    THEN "raise"
    ELSE HandleFrame(kind, type)

\* "async with websockets.connect(...)" and the finally clause of
\* _inner_messages close the websocket when the task leaves them
Close(ws) == IF ws = "open" THEN "closed" ELSE ws

\* the time limit of the wait at an await
WaitTimeout(at) ==
    CASE at = "recv" -> MESSAGE_TIMEOUT
      [] at = "ping" -> PING_TIMEOUT
      [] OTHER -> 0

\* a variant whose handlers treat a cancellation like any other exception
OnRaise_CatchAll(exception) == "sleep"

\* the except clauses of a loop: a cancellation is re-raised and ends the
\* task, any other exception is logged and followed by the retry sleep
OnRaise(exception) == IF exception = "CancelledError" THEN "ended" ELSE "sleep"

\* a variant whose retry sleep has no duration
Raised_NoDelay(exception) ==
    [task EXCEPT !.pc = OnRaise(exception), !.last = exception, !.sleep_for = 0,
                 !.ws = Close(task.ws), !.timeout = 0]

\* the task after an exception was raised at its current await
Raised(exception) ==
    [task EXCEPT !.pc = OnRaise(exception),
                 !.last = exception,
                 !.sleep_for = IF OnRaise(exception) = "sleep" /\ task.kind \in FeedKinds
                               THEN RETRY_DELAY ELSE 0,
                 !.ws = Close(task.ws),
                 !.timeout = 0]

\* the task moves on to the await "to"
Goes(to, outcome) ==
    [task EXCEPT !.pc = to, !.last = outcome, !.sleep_for = 0, !.timeout = WaitTimeout(to)]

\* _inner_messages returns and its finally clause closes the websocket: the
\* "async for" ends and the loop goes round to connect again
StreamEnds(outcome) == [Goes("connect", outcome) EXCEPT !.ws = Close(task.ws)]

\* a step of the loop: it counts as one operation and leaves the orders alone
LoopStep ==
    /\ ops < MaxOps
    /\ ops' = ops + 1
    /\ UNCHANGED <<orders, in_flight_orders, events, order_lock, pc, issued, ret, order_book, namespace, poll, network>>

\* websockets.connect and the subscription request
FeedConnect ==
    /\ task.pc = "connect"
    /\ \E outcome \in {"connected", "Exception", "CancelledError"} :
         task' = IF outcome = "connected"
                 THEN [Goes("recv", outcome) EXCEPT !.ws = "open"]
                 ELSE Raised(outcome)
    /\ UNCHANGED output
    /\ LoopStep

\* _inner_messages waits for a frame for MESSAGE_TIMEOUT seconds; the frame
\* is handled by the loop body
FeedRecv ==
    /\ task.pc = "recv"
    /\ \/ \E type \in FrameTypes, stamp \in Stamps :
            LET handled == ParseFrame(task.kind, type, stamp)
                next == IF task.kind = "user_stream" THEN "recv" ELSE "yield"
                read == IF HandleFrame(task.kind, type) = "put" THEN stamp ELSE None
            IN /\ task' = IF handled = "raise"
                          THEN [Raised("Exception") EXCEPT !.last = "frame", !.frame = type,
                                                           !.stamp = read]
                          ELSE [Goes(next, "frame") EXCEPT !.frame = type, !.stamp = read]
               /\ output' = IF handled = "put" THEN Append(output, type) ELSE output
       \/ /\ \E outcome \in {"Exception", "CancelledError"} : task' = Raised(outcome)
          /\ UNCHANGED output
       \/ /\ task' = Goes("ping", "TimeoutError")
          /\ UNCHANGED output
       \/ /\ task' = StreamEnds("ConnectionClosed")
          /\ UNCHANGED output
    /\ LoopStep

\* "await asyncio.sleep(0)" after each frame of the trade and diff feeds
FeedYield ==
    /\ task.pc = "yield"
    /\ \E outcome \in {"resumed", "CancelledError"} :
         task' = IF outcome = "resumed" THEN Goes("recv", outcome) ELSE Raised(outcome)
    /\ UNCHANGED output
    /\ LoopStep

\* a variant that swallows the timeout of the pong and goes on reading
FeedPing_KeepReading ==
    /\ task.pc = "ping"
    /\ \E outcome \in {"pong", "TimeoutError", "ConnectionClosed", "Exception",
                       "CancelledError"} :
         task' = CASE outcome \in {"pong", "TimeoutError"} -> Goes("recv", outcome)
                   [] outcome = "ConnectionClosed" -> StreamEnds(outcome)
                   [] OTHER -> Raised(outcome)
    /\ UNCHANGED output
    /\ LoopStep

\* the ping after MESSAGE_TIMEOUT: the pong arrives within PING_TIMEOUT, or
\* _inner_messages returns (ping timeout, connection closed) and the loop
\* goes round to connect again
FeedPing ==
    /\ task.pc = "ping"
    /\ \E outcome \in {"pong", "TimeoutError", "ConnectionClosed", "Exception",
                       "CancelledError"} :
         task' = CASE outcome = "pong" -> Goes("recv", outcome)
                   [] outcome \in {"TimeoutError", "ConnectionClosed"} -> StreamEnds(outcome)
                   [] OTHER -> Raised(outcome)
    /\ UNCHANGED output
    /\ LoopStep

\* the awaits inside the try block of the other four loops
LoopBody ==
    /\ task.pc = "body"
    /\ \E outcome \in {"done", "Exception", "CancelledError"} :
         /\ task' = IF outcome = "done" THEN Goes("body", outcome) ELSE Raised(outcome)
         /\ output' = IF outcome = "done" /\ task.kind = "snapshots"
                      THEN Append(output, "snapshot") ELSE output
    /\ LoopStep

\* the sleep of the "except Exception" handler
RetrySleep ==
    /\ task.pc = "sleep"
    /\ \E outcome \in {"slept", "CancelledError"} :
         task' = IF outcome = "slept"
                 THEN [Goes(FirstAwait(task.kind), outcome) EXCEPT !.sleep_for = task.sleep_for]
                 ELSE [task EXCEPT !.pc = "ended", !.last = outcome]
    /\ UNCHANGED output
    /\ LoopStep

----------------------------------------------------------------------------
(* The order book of one trading pair.  The data source (src) builds the   *)
(* messages and their ordering token; the book container and the tracker   *)
(* that feeds it are the host framework's and are modelled from the        *)
(* specification, sections 3 and 4.2.  A side of the book is a set of      *)
(* price levels.  Timestamps are held in milliseconds.                     *)

Level(price, amount) == [price |-> price, amount |-> amount]

\* REST snapshots of the book: the resting levels of each side
SnapshotBids == {{Level(100, 5)}, {Level(99, 2), Level(100, 5)}}
SnapshotAsks == {{Level(101, 3)}, {Level(101, 3), Level(102, 2)}}

\* the "b" and "a" lists of an l2orderbook frame: size 0 deletes the level
DiffBids == {<<>>, <<Level(100, 0)>>, <<Level(100, 2)>>, <<Level(101, 2)>>}
DiffAsks == {<<>>, <<Level(101, 0)>>, <<Level(101, 2)>>}

\* time.time() at a snapshot, data.t of a diff frame
Timestamps == {500, 1500, 1700}

Volumes == {3, 4, 6}

\* the result of get_price_for_volume when the levels are exhausted: not a
\* price
NaN == -1

\* ZebpayOrderBook.snapshot_message_from_exchange: the metadata is merged
\* into the content
snapshot_message_from_exchange(msg, timestamp, trading_pair) ==
    [type |-> "SNAPSHOT",
     content |-> [bids |-> msg.bids, asks |-> msg.asks, trading_pair |-> trading_pair],
     timestamp |-> timestamp]

\* ZebpayOrderBook.diff_message_from_exchange
diff_message_from_exchange(msg, timestamp) ==
    [type |-> "DIFF", content |-> msg, timestamp |-> timestamp]

\* a variant that gives only diffs an ordering token
update_id_DiffOnly(message) ==
    IF message.type = "DIFF" THEN message.timestamp \div 1000 ELSE -1

\* a variant that gives only snapshots an ordering token
update_id_SnapshotOnly(message) ==
    IF message.type = "SNAPSHOT" THEN message.timestamp \div 1000 ELSE -1

\* ZebpayOrderBookMessage.update_id: int(self.timestamp), the whole seconds
\* of the timestamp, for snapshots and diffs
update_id(message) ==
    CASE message.type = "SNAPSHOT" -> message.timestamp \div 1000
      [] message.type = "DIFF" -> message.timestamp \div 1000
      [] OTHER -> -1

\* the rows of one side of a message
RECURSIVE Rows(_)
Rows(entries) ==
    IF entries = <<>> THEN {} ELSE {Head(entries)} \cup Rows(Tail(entries))

\* the book replaces both sides and takes the snapshot's token
apply_snapshot(book, bids, asks, token) ==
    [bids |-> bids, asks |-> asks, token |-> token]

\* one entry of a diff on one side: the level at its price is removed,
\* and set again when the size is positive
ApplyEntry(side, entry) ==
    {l \in side : l.price # entry.price} \cup (IF entry.amount > 0 THEN {entry} ELSE {})

RECURSIVE ApplyEntries(_, _)
ApplyEntries(side, entries) ==
    IF entries = <<>>
    THEN side
    ELSE ApplyEntries(ApplyEntry(side, Head(entries)), Tail(entries))

\* a variant that adds the size of an entry to the size of its level
apply_diffs_AddSize(book, bids, asks, token) ==
    LET Add(side, entries) ==
          IF entries = <<>> THEN side
          ELSE LET e == Head(entries)
                   old == {l \in side : l.price = e.price}
                   sum == IF old = {} THEN e.amount
                          ELSE (CHOOSE l \in old : TRUE).amount + e.amount
               IN (side \ old) \cup (IF e.amount > 0 THEN {Level(e.price, sum)} ELSE {})
    IN IF token < book.token
       THEN book
       ELSE [bids |-> Add(book.bids, bids), asks |-> Add(book.asks, asks), token |-> token]

\* a variant that keeps a deleted level with size zero
apply_diffs_KeepZero(book, bids, asks, token) ==
    LET Set(side, entries) ==
          IF entries = <<>> THEN side
          ELSE {l \in side : l.price # Head(entries).price} \cup {Head(entries)}
    IN IF token < book.token
       THEN book
       ELSE [bids |-> Set(book.bids, bids), asks |-> Set(book.asks, asks), token |-> token]

\* a diff is dropped when its token is below the book's, and applied entry
\* by entry otherwise
apply_diffs(book, bids, asks, token) ==
    IF token < book.token
    THEN book
    ELSE [bids |-> ApplyEntries(book.bids, bids),
          asks |-> ApplyEntries(book.asks, asks),
          token |-> token]

\* the best price of a side: the lowest ask for a buy, the highest bid for
\* a sell
get_price(book, is_buy) ==
    LET side == IF is_buy THEN book.asks ELSE book.bids
    IN IF side = {} THEN NaN
       ELSE IF is_buy
            THEN (CHOOSE l \in side : \A m \in side : l.price <= m.price).price
            ELSE (CHOOSE l \in side : \A m \in side : l.price >= m.price).price

\* the walk over the levels of a side from the best price outward
RECURSIVE Walk(_, _, _, _)
Walk(side, is_buy, volume, filled) ==
    IF side = {}
    THEN NaN
    ELSE LET best == CHOOSE l \in side :
                       \A m \in side : IF is_buy THEN l.price <= m.price ELSE l.price >= m.price
         IN IF filled + best.amount >= volume
            THEN best.price
            ELSE Walk(side \ {best}, is_buy, volume, filled + best.amount)

\* a variant that walks from the far end of the side
get_price_for_volume_Inward(book, is_buy, volume) ==
    Walk(IF is_buy THEN book.asks ELSE book.bids, ~is_buy, volume, 0)

\* the price of the level at which the accumulated size reaches the volume
get_price_for_volume(book, is_buy, volume) ==
    Walk(IF is_buy THEN book.asks ELSE book.bids, is_buy, volume, 0)

\* a step of the order book: it counts as one operation and leaves the
\* orders and the loops alone
BookStep ==
    /\ ops < MaxOps
    /\ ops' = ops + 1
    /\ UNCHANGED <<orders, in_flight_orders, events, order_lock, pc, issued, task, output, namespace, poll, network>>

\* get_new_order_book: the snapshot is fetched, stamped with the local
\* time and applied to a new book; a failed fetch raises IOError
GetNewOrderBook ==
    /\ \/ \E bids \in SnapshotBids, asks \in SnapshotAsks, timestamp \in Timestamps :
            LET snapshot == [bids |-> bids, asks |-> asks]
                snapshot_msg == snapshot_message_from_exchange(snapshot, timestamp, "DAI-INR")
            IN /\ order_book' = apply_snapshot(NoBook, snapshot_msg.content.bids,
                                               snapshot_msg.content.asks,
                                               update_id(snapshot_msg))
               /\ ret' = [op |-> "get_new_order_book", message |-> snapshot_msg,
                          result |-> "returned"]
       \/ /\ ret' = [op |-> "get_new_order_book", message |-> None, result |-> "raised_IOError"]
          /\ UNCHANGED order_book
    /\ BookStep

\* the tracker takes a snapshot message of listen_for_order_book_snapshots
\* from the queue and applies it to the book it tracks
TrackSnapshot ==
    /\ order_book # NoBook
    /\ \E bids \in SnapshotBids, asks \in SnapshotAsks, timestamp \in Timestamps :
         LET snapshot == [bids |-> bids, asks |-> asks]
             snapshot_msg == snapshot_message_from_exchange(snapshot, timestamp, "DAI-INR")
         IN /\ order_book' = apply_snapshot(order_book, snapshot_msg.content.bids,
                                            snapshot_msg.content.asks,
                                            update_id(snapshot_msg))
            /\ ret' = [op |-> "apply_snapshot", message |-> snapshot_msg, result |-> "returned",
                       token_before |-> order_book.token]
    /\ BookStep

\* the tracker takes a diff message of listen_for_order_book_diffs from the
\* queue and hands it to the book it tracks
TrackDiff ==
    /\ order_book # NoBook
    /\ \E bids \in DiffBids, asks \in DiffAsks, timestamp \in Timestamps :
         LET diff_msg == diff_message_from_exchange([bids |-> bids, asks |-> asks], timestamp)
         IN /\ order_book' = apply_diffs(order_book, diff_msg.content.bids,
                                         diff_msg.content.asks, update_id(diff_msg))
            /\ ret' = [op |-> "apply_diffs", message |-> diff_msg, result |-> "returned",
                       token_before |-> order_book.token,
                       redelivered |-> ret.op = "apply_diffs" /\ ret.message = diff_msg]
    /\ BookStep

\* a price-for-volume query on the tracked book
PriceForVolume ==
    /\ order_book # NoBook
    /\ \E is_buy \in BOOLEAN, volume \in Volumes :
         ret' = [op |-> "get_price_for_volume", is_buy |-> is_buy, volume |-> volume,
                 result |-> get_price_for_volume(order_book, is_buy, volume)]
    /\ UNCHANGED order_book
    /\ BookStep

----------------------------------------------------------------------------
(* The REST side of the order book data source: the hourly snapshot loop   *)
(* listen_for_order_book_snapshots and the initialisation get_tracking_pairs,*)
(* each followed through its awaits.                                       *)

\* self._trading_pairs, in configured order
trading_pairs == <<"DAI-INR", "LTC-INR">>

\* the loop over the trading pairs at its start: "requested" lists the
\* pairs get_snapshot was called for in this cycle, "snapshot" its last
\* response, "succeeded" the pairs whose try block ran to its end, "retval"
\* the dictionary under construction as a list of items in insertion order
StartRest(kind) ==
    [kind |-> kind, pc |-> "fetch", index |-> 1, cycle |-> 1, last |-> None,
     requested |-> <<>>, succeeded |-> <<>>, retval |-> <<>>, snapshot |-> None]

\* ZebpayOrderBookTrackerEntry(trading_pair, snapshot_timestamp, order_book,
\* active_order_tracker)
ZebpayOrderBookTrackerEntry(trading_pair, timestamp, book) ==
    [trading_pair |-> trading_pair, timestamp |-> timestamp, order_book |-> book]

\* a step of these coroutines: it counts as one operation and leaves the
\* orders and the tracked book alone
RestStep ==
    /\ ops < MaxOps
    /\ ops' = ops + 1
    /\ UNCHANGED <<orders, in_flight_orders, events, order_lock, pc, issued, order_book, namespace, poll, network>>

\* the for loop of listen_for_order_book_snapshots goes on to the next
\* pair, or, after the last one, to the sleep until the next full hour
AfterPair(t, outcome) ==
    IF t.index < Len(trading_pairs)
    THEN [t EXCEPT !.pc = "fetch", !.index = t.index + 1, !.last = outcome]
    ELSE [t EXCEPT !.pc = "sleep_until_next_hour", !.last = outcome]

\* a variant whose failed fetch ends the for loop
ListenSnapshotsFetch_StopOnError ==
    /\ task.kind = "snapshots"
    /\ task.pc = "fetch"
    /\ LET trading_pair == trading_pairs[task.index]
           called == [task EXCEPT !.requested = Append(task.requested, trading_pair)]
       IN \/ \E bids \in SnapshotBids, asks \in SnapshotAsks, timestamp \in Timestamps :
               LET snapshot == [bids |-> bids, asks |-> asks]
               IN /\ output' = Append(output, snapshot_message_from_exchange(snapshot, timestamp, trading_pair))
                  /\ task' = [called EXCEPT !.pc = "pace", !.last = "fetched",
                                            !.snapshot = snapshot]
          \/ /\ task' = [called EXCEPT !.pc = "sleep_until_next_hour", !.last = "Exception"]
             /\ UNCHANGED output
          \/ /\ task' = [called EXCEPT !.pc = "ended", !.last = "CancelledError"]
             /\ UNCHANGED output
    /\ UNCHANGED ret
    /\ RestStep

\* listen_for_order_book_snapshots at "await self.get_snapshot(client,
\* trading_pair)": the snapshot becomes a SNAPSHOT message on the queue; an
\* exception is logged and followed by a sleep of 5 seconds; a
\* cancellation ends the task
ListenSnapshotsFetch ==
    /\ task.kind = "snapshots"
    /\ task.pc = "fetch"
    /\ LET trading_pair == trading_pairs[task.index]
           called == [task EXCEPT !.requested = Append(task.requested, trading_pair)]
       IN \/ \E bids \in SnapshotBids, asks \in SnapshotAsks, timestamp \in Timestamps :
               LET snapshot == [bids |-> bids, asks |-> asks]
               IN /\ output' = Append(output, snapshot_message_from_exchange(snapshot, timestamp, trading_pair))
                  /\ task' = [called EXCEPT !.pc = "pace", !.last = "fetched",
                                            !.snapshot = snapshot]
          \/ /\ task' = [called EXCEPT !.pc = "sleep_after_error", !.last = "Exception"]
             /\ UNCHANGED output
          \/ /\ task' = [called EXCEPT !.pc = "ended", !.last = "CancelledError"]
             /\ UNCHANGED output
    /\ UNCHANGED ret
    /\ RestStep

\* the sleeps between two pairs: "await asyncio.sleep(0.2)" after a
\* snapshot, "await asyncio.sleep(5.0)" after an exception; a sleep ends
\* or is cancelled
ListenSnapshotsPause ==
    /\ task.kind = "snapshots"
    /\ task.pc \in {"pace", "sleep_after_error"}
    /\ \E outcome \in {"slept", "CancelledError"} :
         task' = IF outcome = "slept"
                 THEN AfterPair(task, outcome)
                 ELSE [task EXCEPT !.pc = "ended", !.last = outcome]
    /\ UNCHANGED <<output, ret>>
    /\ RestStep

\* "await asyncio.sleep(delta)", delta being the time left to the next full
\* hour: then the while loop starts the next cycle
ListenSnapshotsNextHour ==
    /\ task.kind = "snapshots"
    /\ task.pc = "sleep_until_next_hour"
    /\ \E outcome \in {"slept", "CancelledError"} :
         task' = IF outcome = "slept"
                 THEN [task EXCEPT !.pc = "fetch", !.index = 1, !.cycle = task.cycle + 1,
                                   !.last = outcome, !.requested = <<>>]
                 ELSE [task EXCEPT !.pc = "ended", !.last = outcome]
    /\ UNCHANGED <<output, ret>>
    /\ RestStep

\* the for loop of get_tracking_pairs goes on to the next pair, or, after
\* the last one, returns retval
AfterTrackingPair(t, outcome) ==
    IF t.index < Len(trading_pairs)
    THEN [t EXCEPT !.pc = "fetch", !.index = t.index + 1, !.last = outcome]
    ELSE [t EXCEPT !.pc = "returned", !.last = outcome]

\* the result of get_tracking_pairs once it has returned
Returned(t) ==
    IF t.pc = "returned"
    THEN [op |-> "get_tracking_pairs", result |-> "returned", retval |-> t.retval]
    ELSE IF t.pc = "ended"
         THEN [op |-> "get_tracking_pairs", result |-> "raised_" \o t.last, retval |-> <<>>]
         ELSE ret

\* a variant without the except clauses: the exception leaves the
\* coroutine
TrackingPairsFetch_Raise ==
    /\ task.kind = "tracking_pairs"
    /\ task.pc = "fetch"
    /\ LET trading_pair == trading_pairs[task.index]
           called == [task EXCEPT !.requested = Append(task.requested, trading_pair)]
       IN \/ \E bids \in SnapshotBids, asks \in SnapshotAsks, timestamp \in Timestamps :
               LET snapshot == [bids |-> bids, asks |-> asks]
                   snapshot_msg == snapshot_message_from_exchange(snapshot, timestamp, trading_pair)
                   book == apply_snapshot(NoBook, snapshot_msg.content.bids,
                                          snapshot_msg.content.asks, update_id(snapshot_msg))
                   entry == ZebpayOrderBookTrackerEntry(trading_pair, timestamp, book)
               IN task' = [called EXCEPT
                             !.pc = "pace", !.last = "initialized", !.snapshot = snapshot,
                             !.succeeded = Append(task.succeeded, trading_pair),
                             !.retval = Append(task.retval, [key |-> trading_pair, value |-> entry])]
          \/ \E exception \in {"IOError", "Exception", "CancelledError"} :
               task' = [called EXCEPT !.pc = "ended", !.last = exception]
    /\ ret' = Returned(task')
    /\ UNCHANGED output
    /\ RestStep

\* get_tracking_pairs at "await self.get_snapshot(client, trading_pair)":
\* the snapshot is applied to a new order book and the entry stored under
\* the pair; IOError (the fetch) and any other exception (the
\* initialisation) are logged and the loop goes on; a cancellation leaves
\* the coroutine
TrackingPairsFetch ==
    /\ task.kind = "tracking_pairs"
    /\ task.pc = "fetch"
    /\ LET trading_pair == trading_pairs[task.index]
           called == [task EXCEPT !.requested = Append(task.requested, trading_pair)]
       IN \/ \E bids \in SnapshotBids, asks \in SnapshotAsks, timestamp \in Timestamps :
               LET snapshot == [bids |-> bids, asks |-> asks]
                   snapshot_msg == snapshot_message_from_exchange(snapshot, timestamp, trading_pair)
                   book == apply_snapshot(NoBook, snapshot_msg.content.bids,
                                          snapshot_msg.content.asks, update_id(snapshot_msg))
                   entry == ZebpayOrderBookTrackerEntry(trading_pair, timestamp, book)
               IN task' = [called EXCEPT
                             !.pc = "pace", !.last = "initialized", !.snapshot = snapshot,
                             !.succeeded = Append(task.succeeded, trading_pair),
                             !.retval = Append(task.retval, [key |-> trading_pair, value |-> entry])]
          \/ \E exception \in {"IOError", "Exception"} :
               task' = AfterTrackingPair(called, exception)
          \/ task' = [called EXCEPT !.pc = "ended", !.last = "CancelledError"]
    /\ ret' = Returned(task')
    /\ UNCHANGED output
    /\ RestStep

\* "await asyncio.sleep(0.6)" after a pair of get_tracking_pairs
TrackingPairsPause ==
    /\ task.kind = "tracking_pairs"
    /\ task.pc = "pace"
    /\ \E outcome \in {"slept", "CancelledError"} :
         task' = IF outcome = "slept"
                 THEN AfterTrackingPair(task, outcome)
                 ELSE [task EXCEPT !.pc = "ended", !.last = outcome]
    /\ ret' = Returned(task')
    /\ UNCHANGED output
    /\ RestStep

----------------------------------------------------------------------------
Init ==
    /\ orders = [o \in OrderIds |-> None]
    /\ in_flight_orders = <<>>
    /\ events = [o \in OrderIds |-> NoEvents]
    /\ order_lock = FALSE
    /\ pc = Idle
    /\ issued = {}
    /\ ret = NoRet
    /\ ops = 0
    /\ task = NoTask
    /\ output = <<>>
    /\ order_book = NoBook
    /\ namespace = NoNamespace
    /\ poll = NoPoll
    /\ network = NoNetwork

Next ==
    \/ UserStreamEvent
    \/ CreateOrderRejected
    \/ CreateOrderBegin
    \/ CreateOrderEnd
    \/ ExecuteCancelUntracked
    \/ ExecuteCancelBegin
    \/ ExecuteCancelEnd
    \/ UpdateOrderStatusBegin
    \/ UpdateOrderStatusEnd
    \/ CancelAllBegin
    \/ CancelAllEnd
    \/ CancelAllTimeout
    \/ CancelAllCancelled

Spec == Init /\ [][Next]_vars

\* the connector with restarts
NextRestore == Next \/ RestoreTrackingStates

SpecRestore == Init /\ [][NextRestore]_vars

\* one long-lived loop, next to calls of _create_order, _execute_cancel and
\* cancel_all
InitTasks ==
    /\ orders = [o \in OrderIds |-> None]
    /\ in_flight_orders = <<>>
    /\ events = [o \in OrderIds |-> NoEvents]
    /\ order_lock = FALSE
    /\ pc = Idle
    /\ issued = {}
    /\ ret = NoRet
    /\ ops = 0
    /\ \E kind \in LoopKinds : task = StartTask(kind)
    /\ output = <<>>
    /\ order_book = NoBook
    /\ namespace = NoNamespace
    /\ poll = NoPoll
    /\ network = NoNetwork

NextTasks ==
    \/ FeedConnect
    \/ FeedRecv
    \/ FeedYield
    \/ FeedPing
    \/ LoopBody
    \/ RetrySleep
    \/ CreateOrderBegin
    \/ CreateOrderEnd
    \/ ExecuteCancelBegin
    \/ ExecuteCancelEnd
    \/ CancelAllBegin
    \/ CancelAllEnd
    \/ CancelAllCancelled

SpecTasks == InitTasks /\ [][NextTasks]_vars

\* the order book of one trading pair
NextBook ==
    \/ GetNewOrderBook
    \/ TrackSnapshot
    \/ TrackDiff
    \/ PriceForVolume

SpecBook == Init /\ [][NextBook]_vars

\* the snapshot loop, or one call of get_tracking_pairs
InitRest ==
    /\ orders = [o \in OrderIds |-> None]
    /\ in_flight_orders = <<>>
    /\ events = [o \in OrderIds |-> NoEvents]
    /\ order_lock = FALSE
    /\ pc = Idle
    /\ issued = {}
    /\ ret = NoRet
    /\ ops = 0
    /\ \E kind \in {"snapshots", "tracking_pairs"} : task = StartRest(kind)
    /\ output = <<>>
    /\ order_book = NoBook
    /\ namespace = NoNamespace
    /\ poll = NoPoll
    /\ network = NoNetwork

NextRest ==
    \/ ListenSnapshotsFetch
    \/ ListenSnapshotsPause
    \/ ListenSnapshotsNextHour
    \/ TrackingPairsFetch
    \/ TrackingPairsPause

SpecRest == InitRest /\ [][NextRest]_vars

----------------------------------------------------------------------------
(* Properties *)

Created(o) == events[o]["created"] > 0

Tracked(o) == o \in Keys(in_flight_orders)

RECURSIVE SumQuantity(_)
SumQuantity(F) ==
    IF F = {} THEN 0
    ELSE LET f == CHOOSE x \in F : TRUE IN FillQuantity(f) + SumQuantity(F \ {f})

RECURSIVE SumQuote(_)
SumQuote(F) ==
    IF F = {} THEN 0
    ELSE LET f == CHOOSE x \in F : TRUE
         IN FillPrice(f) * FillQuantity(f) + SumQuote(F \ {f})

RECURSIVE SumFee(_)
SumFee(F) ==
    IF F = {} THEN 0
    ELSE LET f == CHOOSE x \in F : TRUE IN FillFee(f) + SumFee(F \ {f})

\* the step handles one user-stream event / finishes one REST status poll
StreamStep == ops' # ops /\ pc' = pc /\ ret'.op = "stream"

PollStep == pc.op = "poll" /\ pc' = Idle

CountTrue(seq) == Cardinality({i \in 1..Len(seq) : seq[i]})

\* C1: in every step, an order's executed base and quote amounts and its fee
\* grow by exactly the quantity, price*quantity and fee of the fill ids that
\* the step adds to fill_id_set, one OrderFilled event is published per added
\* id and update_with_fill_update returned True once per added id; a step
\* that adds no id (every delivered id was already recorded, the call
\* returned False) leaves the amounts, the fee, the fee asset and the set
\* unchanged and publishes no OrderFilled event.
C1_FillAppliedOncePerId ==
    [][\A o \in OrderIds : Created(o) =>
         LET old == orders[o]
             new == orders'[o]
             added == new.fill_id_set \ old.fill_id_set
         IN /\ old.fill_id_set \subseteq new.fill_id_set
            /\ new.executed_amount_base = old.executed_amount_base + SumQuantity(added)
            /\ new.executed_amount_quote = old.executed_amount_quote + SumQuote(added)
            /\ new.fee_paid = old.fee_paid + SumFee(added)
            /\ events'[o]["filled"] = events[o]["filled"] + Cardinality(added)
            /\ (added = {} => new.fee_asset = old.fee_asset)
            /\ (StreamStep \/ PollStep => CountTrue(ret'.updated) = Cardinality(added))]_vars

\* C1 witness: one message delivered fill f1 twice; the first was applied
\* (True), the second was refused (False) and counted once only
C1_Witness ==
    /\ ret.op = "stream"
    /\ ret.updated = <<TRUE, FALSE>>
    /\ orders["o1"].fill_id_set = {"f1"}
    /\ orders["o1"].executed_amount_base = 4
    /\ orders["o1"].executed_amount_quote = 8
    /\ orders["o1"].fee_paid = 1
    /\ events["o1"]["filled"] = 1

\* C2: every order has at most one completion event, has it exactly when its
\* executed base amount has reached its amount, and is then no longer in the
\* in-flight table.
C2_CompletedExactlyWhenFilled ==
    \A o \in OrderIds : Created(o) =>
        /\ events[o]["completed"] <= 1
        /\ (events[o]["completed"] = 1
              <=> orders[o].executed_amount_base >= orders[o].amount)
        /\ (orders[o].executed_amount_base >= orders[o].amount => ~Tracked(o))

\* C3: _execute_cancel for a client order id that is not tracked returns the
\* id, raises nothing and sends no delete request.
C3_UntrackedCancelSucceeds ==
    (ret.op = "cancel" /\ ~ret.tracked)
        => (ret.result = "returned_id" /\ ret.delete_outcome = None)

C5_FailedCancelChangesNothing ==
    [][(pc.op = "cancel" /\ pc' = Idle
          /\ ret'.delete_outcome \in {"non_success", "IOError", "Exception", "CancelledError"})
         => /\ orders' = orders
            /\ in_flight_orders' = in_flight_orders
            /\ events' = events]_vars

\* C5 witness: after a response without success the order is still tracked,
\* open, with cancelled_event unset and without an OrderCancelled event
C5_Witness ==
    /\ ret.op = "cancel"
    /\ ret.delete_outcome = "non_success"
    /\ Tracked("o1")
    /\ orders["o1"].last_state = "open"
    /\ ~orders["o1"].cancelled_event
    /\ events["o1"]["cancelled"] = 0

Terminal(order) == is_done(order) \/ is_cancelled(order)

\* C7: once an order's state is terminal (is_done), no later step changes
\* its last_state or its executed amounts.
C7_TerminalIsSticky ==
    [][\A o \in OrderIds : (Created(o) /\ is_done(orders[o]))
         => /\ orders'[o].last_state = orders[o].last_state
            /\ orders'[o].executed_amount_base = orders[o].executed_amount_base
            /\ orders'[o].executed_amount_quote = orders[o].executed_amount_quote]_vars

\* C8: after every step the in-flight table holds no order whose state is
\* terminal (filled, cancelled or failed), and no step puts back a client
\* order id that was tracked before and has been removed.
C8_NoTerminalOrderTracked ==
    [][/\ \A o \in Keys(in_flight_orders') : ~Terminal(orders'[o])
       /\ \A o \in OrderIds : (Created(o) /\ ~Tracked(o))
             => ~(o \in Keys(in_flight_orders'))]_vars

C10_AtMostOneTerminalEvent ==
    \A o \in OrderIds :
        events[o]["completed"] + events[o]["cancelled"] + events[o]["failure"] <= 1

\* the in-flight table or one of its orders changes in the step
TableChanges ==
    \/ in_flight_orders' # in_flight_orders
    \/ \E o \in OrderIds : Created(o) /\ orders'[o] # orders[o]

\* C11: the in-flight table and its orders are changed only by the holder
\* of _order_lock: while a coroutine is suspended inside the lock, the one
\* step that may change them is the step in which that coroutine resumes.
C11_TableChangesOnlyUnderLock ==
    [][(order_lock /\ TableChanges) => (pc # Idle /\ pc' = Idle)]_vars

\* one update, as both sources hand it to the two processing functions
\* (lines 735-736 and 965-966)
Deliver(S, m) == process_order_message(process_fill_message(S, m), m)

RECURSIVE DeliverAll(_, _)
DeliverAll(S, updates) ==
    IF updates = <<>> THEN S
    ELSE DeliverAll(Deliver(S, Head(updates)), Tail(updates))

\* the orders in which two updates, each delivered once by the REST poll and
\* once by the user stream, can arrive
ArrivalOrders(m1, m2) ==
    {<<m1, m1, m2, m2>>, <<m1, m2, m1, m2>>, <<m1, m2, m2, m1>>,
     <<m2, m1, m1, m2>>, <<m2, m1, m2, m1>>, <<m2, m2, m1, m1>>}

SameOutcome(S1, S2, o) ==
    /\ S1.orders[o].executed_amount_base = S2.orders[o].executed_amount_base
    /\ S1.orders[o].executed_amount_quote = S2.orders[o].executed_amount_quote
    /\ S1.orders[o].last_state = S2.orders[o].last_state
    /\ S1.events[o] = S2.events[o]

\* C12: for a tracked order and any two updates about it, each delivered
\* once by the REST poll and once by the user stream, every arrival order
\* ends with the same executed amounts, the same lifecycle state and the
\* same numbers of published events.
C12_ArrivalOrderIrrelevant ==
    \A o \in Keys(in_flight_orders) : \A m1, m2 \in OrderMessages(o) :
        \A d1, d2 \in ArrivalOrders(m1, m2) :
            SameOutcome(DeliverAll(Cur, d1), DeliverAll(Cur, d2), o)

\* the failure of a create call: it ended, otherwise than by the
\* cancellation of its task, without an acknowledged order
CreateCallFailed ==
    ret.op = "create" /\ ~ret.tracked /\ ret.result # "raised_CancelledError"

\* C13: after every _create_order call that failed for a reason other than
\* task cancellation, for a buy or a sell order, exactly one OrderFailure
\* event and no created event has been published for its client order id
\* and the id is not in the in-flight table.
C13_CreateFailureEmitsOneFailure ==
    CreateCallFailed
        => /\ events[ret.id]["failure"] = 1
           /\ events[ret.id]["created"] = 0
           /\ ~Tracked(ret.id)

PendingRequest(p) ==
    CASE p.op = "create" -> "create_order"
      [] p.op = "cancel" -> "delete_order"
      [] p.op = "poll" -> "get_order"
      [] p.op = "cancel_all" -> "delete_order"

\* the request is sent inside "async with get_throttler().weighted_task(...)":
\* list_orders, get_order, delete_order and the info, snapshot and last
\* traded price requests are; _create_order calls _api_request directly and
\* get_mid_price calls requests.get
weighted_task(request) == request \notin {"create_order", "mid_price"}

\* C15: whenever a REST request of the connector is awaited, the coroutine
\* that sent it has acquired a permit of the shared throttler and holds it.
C15_EveryRequestHoldsPermit ==
    pc # Idle => weighted_task(PendingRequest(pc))

\* the step restores the tracking states into a new connector
RestoreStep == ops' # ops /\ pc' = Idle /\ ret'.op = "restore"

SavedKeys(saved_states) == {saved_states[i].key : i \in 1..Len(saved_states)}

CancelAllStep ==
    /\ pc.op = "cancel_all"
    /\ pc' = Idle
    /\ ret'.op = "cancel_all"
    /\ ret'.result # "raised_CancelledError"

\* C17: cancel_all returns exactly one result for each order that was
\* tracked and not done when it was called; every order reported successful
\* has left the in-flight table in that call with one OrderCancelled event,
\* and every order reported failed keeps its place and gets no event.
C17_CancelAllResults ==
    [][CancelAllStep =>
         LET snapshot == Keys(pc.incomplete_orders)
             results == ret'.cancellations
         IN /\ {r.order_id : r \in results} = snapshot
            /\ Cardinality(results) = Cardinality(snapshot)
            /\ \A r \in results :
                 IF r.success
                 THEN /\ ~(r.order_id \in Keys(in_flight_orders'))
                      /\ events'[r.order_id]["cancelled"]
                             = events[r.order_id]["cancelled"] + 1
                 ELSE /\ events'[r.order_id] = events[r.order_id]
                      /\ (Tracked(r.order_id) => r.order_id \in Keys(in_flight_orders'))]_vars

\* the step is a step of the long-lived loop
TaskStep == ops' # ops /\ pc' = pc /\ ret' = ret /\ task.pc # "none"

\* the frame types for which a feed has a branch of its own
RecognisedTypes(kind) ==
    CASE kind = "trades" -> {"trades", "subscriptions"}
      [] kind = "diffs" -> {"l2orderbook", "subscriptions"}
      [] kind = "user_stream" -> {"open", "match", "change", "done", "received",
                                  "activate", "subscriptions"}

BadFrame(kind, type) == type \in {NoType, "error"} \/ type \notin RecognisedTypes(kind)

\* C18: on the trade, diff and user-stream feeds, reading a frame without
\* type, of type "error" or of a type the feed does not recognise puts
\* nothing on the output queue and ends the connection: the loop goes to
\* its 30-second sleep, from which it can only go on to a new connection
\* attempt (or be cancelled); it never goes on reading.
C18_BadFrameEndsConnection ==
    [][TaskStep /\ task.kind \in FeedKinds =>
         /\ (task.pc = "recv" /\ task'.last = "frame" /\ BadFrame(task.kind, task'.frame))
               => /\ output' = output
                  /\ task'.pc = "sleep"
                  /\ task'.sleep_for = RETRY_DELAY
         /\ task.pc = "sleep"
               => /\ output' = output
                  /\ task'.pc \in {"connect", "ended"}
                  /\ task'.pc = "connect" => task'.sleep_for = RETRY_DELAY]_vars

\* C18 witness: the user-stream feed read a frame of type "orders", put
\* nothing on the queue, slept 30 seconds and is connecting again
C18_Witness ==
    /\ task.kind = "user_stream"
    /\ task.frame = "orders"
    /\ task.pc = "connect"
    /\ task.last = "slept"
    /\ task.sleep_for = RETRY_DELAY
    /\ output = <<>>

\* C19: on every feed, each new connection attempt after the first is made
\* on return from the 30-second sleep, and the loop ends only by the
\* cancellation of its task.
C19_ReconnectAfterDelay ==
    [][TaskStep /\ task.kind \in FeedKinds =>
         /\ task'.pc = "connect" => (task.pc = "sleep" /\ task.sleep_for = RETRY_DELAY)
         /\ task'.pc = "ended" => task'.last = "CancelledError"]_vars

\* C19 amended: a new connection attempt that follows an error (a failed
\* connection attempt, a bad frame, an exception of the read or of the ping)
\* is preceded by the 30-second sleep; after a ping timeout or a closed
\* connection the next attempt is made at once, without a delay; the loop
\* ends only by the cancellation of its task.
C19_DelayOnlyAfterError ==
    [][TaskStep /\ task.kind \in FeedKinds =>
         /\ task'.pc = "connect"
               => \/ /\ task.pc = "sleep"
                     /\ task.sleep_for = RETRY_DELAY
                     /\ task.last \in {"Exception", "frame"}
                  \/ /\ task.pc = "recv" /\ task'.last = "ConnectionClosed"
                     /\ task'.sleep_for = 0
                  \/ /\ task.pc = "ping" /\ task'.last \in {"ConnectionClosed", "TimeoutError"}
                     /\ task'.sleep_for = 0
         /\ (task.pc \in {"recv", "ping"} /\ task'.last = "ConnectionClosed")
               => task'.pc = "connect"
         /\ (task.pc = "ping" /\ task'.last = "TimeoutError") => task'.pc = "connect"
         /\ (task.pc # "sleep" /\ task'.last = "Exception")
               => (task'.pc = "sleep" /\ task'.sleep_for = RETRY_DELAY)
         /\ task'.pc = "ended" => task'.last = "CancelledError"]_vars

\* C19 witness: the pong of the trade feed did not arrive within
\* PING_TIMEOUT and the loop is connecting again without having slept
C19_Witness ==
    /\ task.kind = "trades"
    /\ task.pc = "connect"
    /\ task.last = "TimeoutError"
    /\ task.sleep_for = 0

\* C20: a cancellation delivered to a long-lived loop at any of its awaits
\* ends the task: it does not go to the retry sleep, puts nothing on its
\* queue, and the ended task takes no further step; a cancellation delivered
\* to _create_order, _execute_cancel or cancel_all while its request is
\* awaited ends the call with CancelledError, releases the lock and publishes
\* no event and changes no order.
C20_CancellationEndsTask ==
    [][/\ (TaskStep /\ task.pc # "ended" /\ task'.last = "CancelledError")
             => (task'.pc = "ended" /\ output' = output)
       /\ task.pc = "ended" => (task' = task /\ output' = output)
       /\ (pc # Idle /\ pc' = Idle /\ ret'.result = "raised_CancelledError")
             => /\ events' = events
                /\ in_flight_orders' = in_flight_orders
                /\ ~TableChanges
                /\ ~order_lock']_vars

\* C20 witness: the diff feed was cancelled while it waited for a frame and
\* a create call was cancelled while it waited for its response; no
\* OrderFailure was published
C20_Witness ==
    /\ task.kind = "diffs"
    /\ task.pc = "ended"
    /\ task.last = "CancelledError"
    /\ task.frame = "l2orderbook"
    /\ output = <<"l2orderbook">>
    /\ ret.op = "create"
    /\ ret.result = "raised_CancelledError"
    /\ events["o1"]["failure"] = 0

\* the task is inside "async for raw_msg in self._inner_messages(ws)"
InStream(t) == t.pc \in {"recv", "yield", "ping"}

\* C21: in _inner_messages a ping is sent when no frame arrived within
\* MESSAGE_TIMEOUT; a pong within PING_TIMEOUT lets reading continue on the
\* same connection; a ping timeout or a closed connection ends the message
\* stream; and whenever the task leaves the stream the websocket is closed
C21_PingKeepsOrEndsStream ==
    [][TaskStep /\ task.kind \in FeedKinds =>
         /\ task.pc = "recv" /\ task'.last = "TimeoutError" =>
               task.timeout = 30 /\ task'.pc = "ping" /\ task'.ws = "open"
         /\ task.pc = "ping" /\ task'.last = "pong" =>
               task.timeout = 10 /\ task'.pc = "recv" /\ task'.ws = "open"
         /\ task.pc = "ping" /\ task'.last = "TimeoutError" =>
               task'.pc = "connect" /\ task'.ws = "closed" /\ task'.sleep_for = 0
         /\ InStream(task) /\ task'.last = "ConnectionClosed" =>
               task'.pc = "connect" /\ task'.ws = "closed"
         /\ InStream(task) => task.ws = "open"
         /\ InStream(task) /\ ~InStream(task') => task'.ws = "closed"]_vars

\* a pong was awaited in vain and the stream ended with the websocket closed
C21_Witness ==
    /\ task.kind \in FeedKinds
    /\ task.pc = "connect"
    /\ task.last = "TimeoutError"
    /\ task.ws = "closed"

\* the data frame of a market-data feed: "trades" on the trade feed,
\* "l2orderbook" on the diff feed
DataFrame(kind, type) ==
    \/ kind = "trades" /\ type = "trades"
    \/ kind = "diffs" /\ type = "l2orderbook"

\* C28: on the trade and diff feeds every data frame (timestamp at
\* data.t, as the exchange sends it) is put on the output queue as one
\* message of its type, after the messages put before it, and a
\* "subscriptions" frame puts nothing on the queue; neither ends the
\* connection
C28_EveryDataFrameQueued ==
    [][/\ TaskStep
       /\ task.kind \in {"trades", "diffs"}
       /\ task.pc = "recv"
       /\ task'.last = "frame"
       => /\ DataFrame(task.kind, task'.frame) /\ task'.stamp = "data.t" =>
               output' = Append(output, task'.frame) /\ InStream(task')
          /\ task'.frame = "subscriptions" => output' = output /\ InStream(task')]_vars

\* a step of the order book that ends the operation "op"
BookOp(op) == ops' # ops /\ ret'.op = op

\* the whole seconds of a timestamp
Seconds(timestamp) == timestamp \div 1000

\* the levels of "side" agree with the entries: a level with an entry is
\* gone when the entry's size is zero and has the entry's size otherwise
EntriesSet(side, entries) ==
    \A e \in Rows(entries) :
        IF e.amount = 0
        THEN \A l \in side : l.price # e.price
        ELSE {l \in side : l.price = e.price} = {e}

\* the levels without an entry are the same in "old" and "new"
OthersKept(old, new, entries) ==
    LET touched == {e.price : e \in Rows(entries)}
    IN {l \in old : l.price \notin touched} = {l \in new : l.price \notin touched}

\* C23: a diff whose token is below the book's token leaves bids, asks and
\* token unchanged; a diff whose token is greater than or equal to it is
\* applied: the book takes its token and its entries
C23_StaleDiffDropped ==
    [][BookOp("apply_diffs") =>
         LET m == ret'.message
         IN /\ Seconds(m.timestamp) < order_book.token => order_book' = order_book
            /\ Seconds(m.timestamp) >= order_book.token =>
                  /\ order_book'.token = Seconds(m.timestamp)
                  /\ EntriesSet(order_book'.bids, m.content.bids)
                  /\ EntriesSet(order_book'.asks, m.content.asks)]_vars

\* a diff with entries arrived with a token below the book's
C23_Witness ==
    /\ ret.op = "apply_diffs"
    /\ Seconds(ret.message.timestamp) < ret.token_before
    /\ ret.message.content.bids # <<>>
    /\ order_book.bids # {}

\* C24: a diff handed to the book twice in a row leaves the book, the
\* second time, as it was after the first
C24_SameDiffTwice ==
    [][BookOp("apply_diffs") /\ ret'.redelivered => order_book' = order_book]_vars

\* an accepted diff that set a level was handed to the book again
C24_Witness ==
    /\ ret.op = "apply_diffs"
    /\ ret.redelivered
    /\ Seconds(ret.message.timestamp) = order_book.token
    /\ \E e \in Rows(ret.message.content.bids) : e.amount > 0 /\ e \in order_book.bids

\* C25: a snapshot replaces both sides of the book by its levels and sets
\* the token to its own, whatever the book held and whatever its token
C25_SnapshotReplacesBook ==
    [][(BookOp("apply_snapshot") \/ BookOp("get_new_order_book")) /\ ret'.result = "returned" =>
         order_book' = [bids |-> ret'.message.content.bids,
                        asks |-> ret'.message.content.asks,
                        token |-> Seconds(ret'.message.timestamp)]]_vars

\* a snapshot with a lower token than the book's was applied
C25_Witness ==
    /\ ret.op = "apply_snapshot"
    /\ ret.token_before > Seconds(ret.message.timestamp)
    /\ order_book.token = Seconds(ret.message.timestamp)
    /\ order_book.bids = ret.message.content.bids
    /\ order_book.bids # {}

\* snapshot {bid 100@5, ask 101@3}, diff {bid 100@0}, diff {ask 101@2}
ScenarioBook ==
    LET b0 == apply_snapshot(NoBook, {Level(100, 5)}, {Level(101, 3)}, 1)
        b1 == apply_diffs(b0, <<Level(100, 0)>>, <<>>, 1)
        b2 == apply_diffs(b1, <<>>, <<Level(101, 2)>>, 1)
    IN b2

\* C26: an accepted diff removes the level of each entry of size 0 and
\* sets the level of each entry of positive size, on the entry's side, and
\* leaves all other levels as they were; the scenario ends with no bids
\* and asks {101@2}
C26_DiffEntriesApplied ==
    /\ ScenarioBook.bids = {} /\ ScenarioBook.asks = {Level(101, 2)}
    /\ [][BookOp("apply_diffs") /\ Seconds(ret'.message.timestamp) >= order_book.token =>
            LET m == ret'.message
            IN /\ EntriesSet(order_book'.bids, m.content.bids)
               /\ EntriesSet(order_book'.asks, m.content.asks)
               /\ OthersKept(order_book.bids, order_book'.bids, m.content.bids)
               /\ OthersKept(order_book.asks, order_book'.asks, m.content.asks)]_vars

\* the end of the scenario: the second diff was applied to a book without
\* bids
C26_Witness ==
    /\ ret.op = "apply_diffs"
    /\ ret.message.content = [bids |-> <<>>, asks |-> <<Level(101, 2)>>]
    /\ order_book.bids = {}
    /\ order_book.asks = {Level(101, 2)}

RECURSIVE TotalAmount(_)
TotalAmount(levels) ==
    IF levels = {} THEN 0
    ELSE LET l == CHOOSE x \in levels : TRUE IN l.amount + TotalAmount(levels \ {l})

\* the levels of the side from the best price up to "price"
UpTo(side, is_buy, price) ==
    {l \in side : IF is_buy THEN l.price <= price ELSE l.price >= price}

\* the prices of the side at which the accumulated size covers the volume
Covering(side, is_buy, volume) ==
    {l.price : l \in {x \in side : TotalAmount(UpTo(side, is_buy, x.price)) >= volume}}

\* C27: the price for a volume is the price of the first level, from the
\* best price outward, at which the accumulated size reaches the volume:
\* not below the best ask for a buy, not above the best bid for a sell;
\* it is the failure value when the side has less than the volume
C27_PriceForVolume ==
    ret.op = "get_price_for_volume" =>
        LET side == IF ret.is_buy THEN order_book.asks ELSE order_book.bids
            covering == Covering(side, ret.is_buy, ret.volume)
        IN IF covering = {}
           THEN ret.result = NaN
           ELSE /\ ret.result \in covering
                /\ \A p \in covering : IF ret.is_buy THEN ret.result <= p ELSE ret.result >= p
                /\ \E l \in side : IF ret.is_buy THEN l.price <= ret.result
                                                   ELSE l.price >= ret.result
                /\ \A l \in side : l.price = get_price(order_book, ret.is_buy) =>
                      IF ret.is_buy THEN ret.result >= l.price ELSE ret.result <= l.price

\* a buy that needs the second ask level
C27_Witness ==
    /\ ret.op = "get_price_for_volume"
    /\ ret.is_buy
    /\ ret.volume = 4
    /\ order_book.asks = {Level(101, 3), Level(102, 2)}
    /\ ret.result = 102

\* a step of the snapshot loop or of get_tracking_pairs
RestOp(kind) == ops' # ops /\ task.kind = kind

\* the first "n" elements of a sequence
Prefix(seq, n) == SubSeq(seq, 1, n)

\* C29: in every cycle of listen_for_order_book_snapshots the snapshots are
\* requested once per configured pair, in configured order; a fetched
\* snapshot puts one SNAPSHOT message with its pair, bids and asks on the
\* queue; a failed fetch puts nothing and the next pair is still fetched;
\* a new cycle starts only when the sleep until the next hour has ended
C29_SnapshotCycle ==
    [][RestOp("snapshots") =>
         /\ task.pc = "fetch" =>
               /\ task'.requested = Prefix(trading_pairs, task.index)
               /\ task'.last = "fetched" =>
                     /\ Len(output') = Len(output) + 1
                     /\ Prefix(output', Len(output)) = output
                     /\ output'[Len(output')].type = "SNAPSHOT"
                     /\ output'[Len(output')].content.trading_pair = trading_pairs[task.index]
                     /\ output'[Len(output')].content.bids = task'.snapshot.bids
                     /\ output'[Len(output')].content.asks = task'.snapshot.asks
               /\ task'.last = "Exception" =>
                     /\ output' = output
                     /\ task'.pc = "sleep_after_error"
         /\ task.pc # "fetch" => output' = output
         /\ task.pc \in {"pace", "sleep_after_error"} /\ task'.last = "slept" =>
               IF task.index < Len(trading_pairs)
               THEN task'.pc = "fetch" /\ task'.index = task.index + 1 /\ task'.cycle = task.cycle
               ELSE task'.pc = "sleep_until_next_hour" /\ task'.requested = trading_pairs
         /\ task'.cycle # task.cycle =>
               /\ task.pc = "sleep_until_next_hour"
               /\ task'.last = "slept"
               /\ task.requested = trading_pairs
               /\ task'.cycle = task.cycle + 1
               /\ task'.pc = "fetch" /\ task'.index = 1]_vars

\* the first pair failed, the second was fetched, and the loop sleeps until
\* the next hour
C29_Witness ==
    /\ task.kind = "snapshots"
    /\ task.pc = "sleep_until_next_hour"
    /\ task.requested = trading_pairs
    /\ Len(output) = 1
    /\ output[1].content.trading_pair = trading_pairs[2]

\* the keys of a dictionary, in insertion order
RECURSIVE ItemKeys(_)
ItemKeys(items) ==
    IF items = <<>> THEN <<>> ELSE <<Head(items).key>> \o ItemKeys(Tail(items))

\* C30: get_tracking_pairs returns one entry for every configured pair
\* whose fetch and initialisation succeeded, keyed by the pair in
\* configured order, with the entry's trading_pair equal to its key; a
\* failure for a pair does not raise and the later pairs are still
\* requested
C30_TrackingPairs ==
    /\ [][RestOp("tracking_pairs") /\ task.pc = "fetch" /\ task'.last \in {"IOError", "Exception"} =>
            /\ task'.pc # "ended"
            /\ task'.retval = task.retval
            /\ IF task.index < Len(trading_pairs)
               THEN task'.pc = "fetch" /\ task'.index = task.index + 1
               ELSE task'.pc = "returned" /\ ret'.result = "returned"]_vars
    /\ [](ret.op = "get_tracking_pairs" /\ ret.result = "returned" =>
            /\ task.requested = trading_pairs
            /\ ItemKeys(ret.retval) = task.succeeded
            /\ \A i \in 1..Len(ret.retval) :
                  /\ ret.retval[i].value.trading_pair = ret.retval[i].key
                  /\ \E j \in 1..Len(trading_pairs) : trading_pairs[j] = ret.retval[i].key
            /\ \A i, j \in 1..Len(ret.retval) :
                  i < j => \E k, l \in 1..Len(trading_pairs) :
                             k < l /\ trading_pairs[k] = ret.retval[i].key
                                   /\ trading_pairs[l] = ret.retval[j].key)

\* the first pair failed and the result holds the second pair only
C30_Witness ==
    /\ ret.op = "get_tracking_pairs"
    /\ ret.result = "returned"
    /\ ItemKeys(ret.retval) = <<trading_pairs[2]>>

-----------------------------------------------------------------------------
(* REST requests: ZebpayExchange._api_request *)

Methods == {"get", "post", "delete", "put"}

\* response bodies: text that is no JSON, and JSON objects with a code of 0,
\* with a code of 1, and without a code
Bodies == {[json |-> FALSE], [json |-> TRUE, code |-> 0], [json |-> TRUE, code |-> 1], [json |-> TRUE]}

HttpStatuses == {200, 404}

NoResponse == [json |-> FALSE, none |-> TRUE]

\* the headers of a request: an authenticated request reads
\* self.zebpay_auth, an attribute the exchange does not have (the
\* constructor sets self._zebpay_auth)
Headers(is_auth_required) == IF is_auth_required THEN "AttributeError" ELSE "headers"

\* what _api_request makes of a response: the body is parsed, then the
\* status is tested, then the code of the parsed body
ApiResult(body, status) ==
    IF ~body.json THEN "IOError"
    ELSE IF status # 200 THEN "IOError"
    ELSE IF "code" \notin DOMAIN body THEN "KeyError"
    ELSE IF body.code # 0 THEN "IOError"
    ELSE "returned"

\* the HTTP verb _api_request uses for a method: delete is sent as a POST
Verb(method) == IF method = "get" THEN "GET" ELSE "POST"

\* one call of _api_request; the response is an input, drawn only when a
\* request is sent
ApiRequest ==
    /\ ops < MaxOps
    /\ pc = Idle
    /\ \E method \in Methods, is_auth_required \in BOOLEAN :
         LET call == [op |-> "_api_request", method |-> method,
                      is_auth_required |-> is_auth_required]
         IN IF Headers(is_auth_required) = "AttributeError"
            THEN ret' = call @@ [requests |-> <<>>, response |-> NoResponse, status |-> 0,
                                 result |-> "AttributeError"]
            ELSE IF method \notin {"get", "post", "delete"}
            THEN ret' = call @@ [requests |-> <<>>, response |-> NoResponse, status |-> 0,
                                 result |-> "NotImplementedError"]
            ELSE \E body \in Bodies, status \in HttpStatuses :
                   ret' = call @@ [requests |-> <<Verb(method)>>, response |-> body,
                                   status |-> status, result |-> ApiResult(body, status)]
    /\ ops' = ops + 1
    /\ UNCHANGED <<orders, in_flight_orders, events, order_lock, pc, issued, task, output, order_book, namespace, poll, network>>

NextApi == ApiRequest

SpecApi == Init /\ [][NextApi]_vars

ApiCall == ret.op = "_api_request"

\* C31: _api_request returns a parsed response only for a body that parses,
\* status 200 and code 0; an unparsable body, another status or a non-zero
\* code raises IOError; a method other than get, post and delete raises
\* NotImplementedError and no HTTP request is sent
C31_ApiRequest ==
    ApiCall =>
        /\ ret.result = "returned" =>
              /\ ret.response.json
              /\ ret.status = 200
              /\ "code" \in DOMAIN ret.response
              /\ ret.response.code = 0
        /\ /\ ret.requests # <<>>
           /\ \/ ~ret.response.json
              \/ ret.status # 200
              \/ "code" \in DOMAIN ret.response /\ ret.response.code # 0
           => ret.result = "IOError"
        /\ ret.method \notin {"get", "post", "delete"} =>
              /\ ret.result = "NotImplementedError"
              /\ ret.requests = <<>>

-----------------------------------------------------------------------------
(* ZebpayExchange.get_order_book *)

\* the order books the tracker holds, by trading pair: the book of DAI-INR
\* once it was built, and never one of LTC-INR
order_books == IF order_book = NoBook THEN <<>> ELSE [tp \in TradingPairs |-> order_book]

\* a variant that hands out an empty book for a pair that has none
get_order_book_EmptyBook(trading_pair) ==
    IF trading_pair \notin DOMAIN order_books
    THEN [result |-> "returned", book |-> [NoBook EXCEPT !.token = 0]]
    ELSE [result |-> "returned", book |-> order_books[trading_pair]]

get_order_book(trading_pair) ==
    IF trading_pair \notin DOMAIN order_books
    THEN [result |-> "ValueError", book |-> NoBook]
    ELSE [result |-> "returned", book |-> order_books[trading_pair]]

\* one call of get_order_book
GetOrderBook ==
    /\ ops < MaxOps
    /\ \E trading_pair \in {"DAI-INR", "LTC-INR"} :
         ret' = [op |-> "get_order_book", trading_pair |-> trading_pair] @@
                get_order_book(trading_pair)
    /\ ops' = ops + 1
    /\ UNCHANGED <<orders, in_flight_orders, events, order_lock, pc, issued, task, output, order_book, namespace, poll, network>>

\* the order book of one trading pair and the calls that read it
NextGetBook ==
    \/ GetNewOrderBook
    \/ TrackSnapshot
    \/ TrackDiff
    \/ GetOrderBook

SpecGetBook == Init /\ [][NextGetBook]_vars

\* C32: get_order_book raises ValueError for a pair without a tracked book,
\* in the one step of the call and with every book and order left as it
\* was; for a tracked pair it returns that pair's book
C32_GetOrderBook ==
    [][BookOp("get_order_book") =>
          /\ UNCHANGED <<orders, in_flight_orders, events, order_lock, pc, issued, task, output, order_book, namespace, poll, network>>
          /\ ret'.trading_pair \notin DOMAIN order_books => ret'.result = "ValueError"
          /\ ret'.trading_pair \in DOMAIN order_books =>
                /\ ret'.result = "returned"
                /\ ret'.book = order_books[ret'.trading_pair]]_vars

\* a pair without a book is asked for while DAI-INR has one
C32_Witness ==
    /\ ret.op = "get_order_book"
    /\ ret.result = "ValueError"
    /\ ret.trading_pair = "LTC-INR"
    /\ order_book # NoBook

-----------------------------------------------------------------------------
(* The socket.io namespace: ZebpayCustomNamespace                          *)
(*                                                                         *)
(* An event name is held as the sequence of its parts, with the separators *)
(* "EVENT_" and "_ORDER_" as parts of their own; a dictionary is held as   *)
(* the set of its keys.                                                    *)

NamespaceEvents ==
    {<<"connect">>,
     <<"message">>,
     <<"EVENT_", "PAIR_INFO_BY_SYMBOL_INR_DAI">>,
     <<"INR_DAI", "EVENT_", "TICKER">>,
     <<"INR_DAI", "EVENT_", "MATCH">>,
     <<"INR_DAI", "EVENT_", "ADD", "_ORDER_", "BUY">>,
     <<"INR_DAI", "EVENT_", "DELETE", "_ORDER_", "BUY">>,
     <<"INR_DAI", "EVENT_", "DELETE", "_ORDER_", "SELL">>}

\* the dictionaries of a payload: the fields at the top level, without and
\* with a "data" object that holds the timestamp "t"
FlatItem == {"d", "s", "p", "q", "updatedAt"}
NestedItem == FlatItem \cup {"data"}

\* the positional arguments of an event: none, or one list of one dictionary
NamespaceArgs == {<<>>, <<<<FlatItem>>>>, <<<<NestedItem>>>>}

\* str.split(sep): the parts between the occurrences of sep
RECURSIVE Split(_, _)
Split(event, sep) ==
    IF event = <<>> THEN <<<<>>>>
    ELSE LET rest == Split(Tail(event), sep)
         IN IF Head(event) = sep
            THEN <<<<>>>> \o rest
            ELSE <<<<Head(event)>> \o Head(rest)>> \o Tail(rest)

\* hasattr(self, 'on_' + event): on_connect, on_disconnect, on_connect_error
HasHandler(event) == event \in {<<"connect">>, <<"disconnect">>, <<"connect_error">>}

\* the handler returns without a put
Discards(ns) == [namespace |-> ns, raised |-> None]

\* the handler returns after put_nowait
Puts(ns) == [namespace |-> ns, raised |-> None]

Raises(ns, exception) == [namespace |-> ns, raised |-> exception]

\* ZebpayOrderBookMessage.__new__ without a timestamp: a snapshot raises
\* ValueError, any other message reads content["data"]["t"]
ZebpayOrderBookMessage(message_type, content) ==
    IF message_type = "SNAPSHOT" THEN [raised |-> "ValueError"]
    ELSE IF "data" \notin content THEN [raised |-> "KeyError"]
    ELSE [raised |-> None, type |-> message_type, content |-> content]

\* diff_handler: the message it builds has the keys pair, updatedAt, bids
\* and asks
diff_handler(ns, pair, action, side, args) ==
    IF ~ns.diff_bound THEN Discards(ns)
    ELSE IF action = <<"ADD">> THEN Discards(ns)
    ELSE IF action # <<"DELETE">> /\ (args = <<>> \/ args[1] = <<>>) THEN Raises(ns, "IndexError")
    ELSE IF action # <<"DELETE">> /\ "updatedAt" \notin args[1][1] THEN Raises(ns, "KeyError")
    ELSE IF side \in {<<"BUY">>, <<"SELL">>} /\ args = <<>> THEN Raises(ns, "IndexError")
    ELSE LET sides == IF side \in {<<"BUY">>, <<"SELL">>} THEN {"bids", "asks"} ELSE {}
             diff_msg == ZebpayOrderBookMessage("DIFF", {"pair", "updatedAt"} \cup sides)
         IN IF diff_msg.raised # None THEN Raises(ns, diff_msg.raised)
            ELSE Puts([ns EXCEPT !.diff_queue = Append(@, diff_msg)])

\* trade_handler: the first dictionary of the payload, with the pair and
\* the fields trade_message_from_exchange adds
trade_handler(ns, pair, args) ==
    IF ~ns.trade_bound THEN Discards(ns)
    ELSE IF args = <<>> \/ args[1] = <<>> THEN Raises(ns, "IndexError")
    ELSE LET msg == args[1][1] \cup {"pair", "exchange_order_id", "trade_type", "price", "amount"}
             trade_msg == ZebpayOrderBookMessage("TRADE", msg)
         IN IF trade_msg.raised # None THEN Raises(ns, trade_msg.raised)
            ELSE Puts([ns EXCEPT !.trade_queue = Append(@, trade_msg)])

\* ZebpayCustomNamespace.trigger_event(event, *args)
namespace_trigger_event(ns, event, args) ==
    IF HasHandler(event) THEN Discards(ns)
    ELSE IF Len(Split(event, "EVENT_")) # 2 THEN Discards(ns)
    ELSE LET pair == Split(event, "EVENT_")[1]
             event_type == Split(event, "EVENT_")[2]
         IN IF pair = <<>> THEN Discards(ns)
            ELSE IF event_type # <<>> /\ event_type[Len(event_type)] = "MATCH"
            THEN trade_handler(ns, pair, args)
            ELSE IF Len(Split(event_type, "_ORDER_")) # 2 THEN Discards(ns)
            ELSE diff_handler(ns, pair, Split(event_type, "_ORDER_")[1],
                              Split(event_type, "_ORDER_")[2], args)

\* set_diff_queue, set_trade_queue: the queue is bound if none was before
SetQueue ==
    /\ ops < MaxOps
    /\ \/ namespace' = [namespace EXCEPT !.diff_bound = TRUE]
       \/ namespace' = [namespace EXCEPT !.trade_bound = TRUE]
    /\ ret' = [op |-> "set_queue"]
    /\ ops' = ops + 1
    /\ UNCHANGED <<orders, in_flight_orders, events, order_lock, pc, issued, task, output, order_book, poll, network>>

\* one event delivered by the socket.io client
NamespaceTriggerEvent ==
    /\ ops < MaxOps
    /\ \E event \in NamespaceEvents, args \in NamespaceArgs :
         LET r == namespace_trigger_event(namespace, event, args)
         IN /\ namespace' = r.namespace
            /\ ret' = [op |-> "trigger_event", event |-> event, args |-> args,
                       raised |-> r.raised,
                       diff_bound |-> namespace.diff_bound,
                       trade_bound |-> namespace.trade_bound,
                       diffs_put |-> Len(r.namespace.diff_queue) - Len(namespace.diff_queue),
                       trades_put |-> Len(r.namespace.trade_queue) - Len(namespace.trade_queue)]
    /\ ops' = ops + 1
    /\ UNCHANGED <<orders, in_flight_orders, events, order_lock, pc, issued, task, output, order_book, poll, network>>

NextNamespace ==
    \/ SetQueue
    \/ NamespaceTriggerEvent

SpecNamespace == Init /\ [][NextNamespace]_vars

\* the event is a DELETE order event, or a MATCH event
IsDelete(event) == Len(event) = 5 /\ event[2] = "EVENT_" /\ event[3] = "DELETE" /\ event[4] = "_ORDER_"

IsMatch(event) == Len(event) = 3 /\ event[2] = "EVENT_" /\ event[3] = "MATCH"

\* C33: trigger_event never raises; an event that cannot be split, an INFO
\* event, an ADD event and an event that finds no bound queue put nothing on
\* a queue; a DELETE order event with a bound diff queue puts one diff
\* message, a MATCH event with a bound trade queue and a payload puts one
\* trade message
C33_TriggerEventNeverRaises ==
    ret.op = "trigger_event" =>
        /\ ret.raised = None
        /\ ~IsDelete(ret.event) => ret.diffs_put = 0
        /\ ~IsMatch(ret.event) => ret.trades_put = 0
        /\ ~ret.diff_bound => ret.diffs_put = 0
        /\ ~ret.trade_bound => ret.trades_put = 0
        /\ IsDelete(ret.event) /\ ret.diff_bound => ret.diffs_put = 1
        /\ IsMatch(ret.event) /\ ret.trade_bound /\ ret.args # <<>> => ret.trades_put = 1

-----------------------------------------------------------------------------
(* Fill lists *)

\* the fill ids of a list
FillIdsOf(fills) == {fills[i] : i \in 1..Len(fills)}

\* C34: for a tracked order and an update that carries a list of fills,
\* _process_fill_message applies every fill of the list whose id was not
\* applied before, wherever it stands in the list, publishes one OrderFilled
\* event per such fill, and performs the completion check
C34_EveryNewFillApplied ==
    \A o \in Keys(in_flight_orders) : \A m \in OrderMessages(o) :
        m.fills # NoFills =>
            LET S2 == process_fill_message(Cur, m)
                new == FillIdsOf(m.fills) \ orders[o].fill_id_set
            IN /\ new \subseteq S2.orders[o].fill_id_set
               /\ S2.events[o]["filled"] = events[o]["filled"] + Cardinality(new)
               /\ S2.orders[o].executed_amount_base >= S2.orders[o].amount
                     => S2.events[o]["completed"] = events[o]["completed"] + 1

-----------------------------------------------------------------------------
(* 'orders' frames on the user stream *)

\* C35: a frame of type "orders" read by the user-stream feed is put on the
\* user-stream queue, from which _user_stream_event_listener takes it, and
\* the feed goes on reading on the same connection
C35_OrdersFrameDelivered ==
    [][/\ TaskStep
       /\ task.kind = "user_stream"
       /\ task.pc = "recv"
       /\ task'.last = "frame"
       /\ task'.frame = "orders"
       => /\ output' = Append(output, "orders")
          /\ task'.pc = "recv"
          /\ task'.ws = "open"]_vars

-----------------------------------------------------------------------------
(* The size check of _create_order *)

\* the amount lies between the sizes of the trading rule
InRange(amount) ==
    trading_rule.min_order_size <= amount /\ amount <= trading_rule.max_order_size

\* the last call of _create_order ended before it sent a request
Rejected == ret.op = "create" /\ "check" \in DOMAIN ret

\* C36: _create_order rejects a limit order on size grounds (ValueError)
\* exactly when its amount is lower than min_order_size or higher than
\* max_order_size, and only an order that passed the check has a create
\* request pending
C36_SizeRejection ==
    /\ Rejected /\ ret.order_type = "LIMIT" => (ret.check = "ValueError" <=> ~InRange(ret.amount))
    /\ pc.op = "create" => InRange(pc.amount)

-----------------------------------------------------------------------------
(* Fills redelivered after a restore *)

\* the table after the step
Restored == [orders |-> orders', in_flight_orders |-> in_flight_orders', events |-> events', updated |-> <<>>]

\* C37: after restore_tracking_states, a fill that had been applied to an
\* order before its state was saved is treated as already applied: its
\* redelivery leaves the executed amounts and the fee of the restored order
\* unchanged and publishes no OrderFilled event
C37_RestoredFillNotReapplied ==
    [][RestoreStep =>
         \A o \in Keys(in_flight_orders') : \A f \in orders[o].fill_id_set :
             LET S2 == process_fill_message(Restored, [c |-> o, fills |-> <<f>>, status |-> orders'[o].last_state])
             IN /\ ~update_with_fill_update(orders'[o], f).updated
                /\ S2.orders[o].executed_amount_base = orders'[o].executed_amount_base
                /\ S2.orders[o].executed_amount_quote = orders'[o].executed_amount_quote
                /\ S2.orders[o].fee_paid = orders'[o].fee_paid
                /\ S2.events[o]["filled"] = events'[o]["filled"]]_vars

-----------------------------------------------------------------------------
(* The state predicates of an order *)

\* C38: whatever its last_state, an order that is_cancelled or is_failure is
\* is_done (so tracking_states does not report it and cancel_all does not
\* count it as incomplete), and an order that is done by a cancellation
\* status is_cancelled
C38_CancelledOrFailedIsDone ==
    \A o \in OrderIds : Created(o) =>
        /\ is_cancelled(orders[o]) => is_done(orders[o])
        /\ is_failure(orders[o]) => is_done(orders[o])
        /\ is_cancelled(orders[o]) \/ is_failure(orders[o]) =>
              /\ o \notin SavedKeys(tracking_states([Cur EXCEPT !.in_flight_orders = <<o>>], <<o>>))
              /\ Incomplete(Cur, <<o>>) = <<>>
        /\ is_done(orders[o]) /\ orders[o].last_state \notin {"filled", "rejected"}
              => is_cancelled(orders[o])

-----------------------------------------------------------------------------
(* The clock: ZebpayExchange.tick and the wait of _status_polling_loop      *)
(*                                                                         *)
(* Times are whole seconds.  The quotient of a true division is held as    *)
(* the pair of its numerator and denominator.                              *)

SHORT_POLL_INTERVAL == 11
LONG_POLL_INTERVAL == 120

\* the timestamp of the first tick of the clock
StartTimestamps == {1000, 1079}

\* x / y
TrueDiv(x, y) == <<x, y>>

\* p > q for two quotients with positive denominators
Greater(p, q) == p[1] * q[2] > q[1] * p[2]

\* the poll interval tick chooses at time now
PollInterval(now, last_recv_time) ==
    IF now - last_recv_time > 60 THEN SHORT_POLL_INTERVAL ELSE LONG_POLL_INTERVAL

\* tick(timestamp), called at time now
tick(p, timestamp, now) ==
    LET poll_interval == PollInterval(now, p.last_recv_time)
        last_tick == TrueDiv(p.last_timestamp, poll_interval)
        current_tick == TrueDiv(timestamp, poll_interval)
    IN [p EXCEPT !.poll_notifier = IF Greater(current_tick, last_tick) THEN TRUE ELSE @,
                 !.last_timestamp = timestamp]

\* a step of the clock side: it counts as one operation and leaves the
\* orders, the loops and the book alone
PollOp ==
    /\ ops < MaxOps
    /\ ops' = ops + 1
    /\ UNCHANGED <<orders, in_flight_orders, events, order_lock, pc, issued, task, output, order_book, namespace, network>>

\* the clock ticks once a second and calls tick with the time of the tick
Tick ==
    /\ \E timestamp \in IF poll.last_timestamp = 0 THEN StartTimestamps
                        ELSE {poll.last_timestamp + 1} :
         /\ poll' = tick(poll, timestamp, timestamp)
         /\ ret' = [op |-> "tick", timestamp |-> timestamp,
                    poll_interval |-> PollInterval(timestamp, poll.last_recv_time)]
    /\ PollOp

\* _inner_messages of the user stream receives a frame: last_recv_time is
\* the time of the receipt
UserStreamRecv ==
    /\ poll.last_timestamp > 0
    /\ poll' = [poll EXCEPT !.last_recv_time = poll.last_timestamp]
    /\ ret' = [op |-> "user_stream_recv"]
    /\ PollOp

\* _status_polling_loop: the wait for the notifier ends, the poll runs, and
\* the next round of the loop replaces the notifier by a new, clear event
StatusPoll ==
    /\ poll.poll_notifier
    /\ poll' = [poll EXCEPT !.poll_notifier = FALSE, !.polls = @ + 1]
    /\ ret' = [op |-> "status_poll"]
    /\ PollOp

NextPoll ==
    \/ Tick
    \/ UserStreamRecv
    \/ StatusPoll

SpecPoll == Init /\ [][NextPoll]_vars

\* the poll-interval window of a time
Window(timestamp, interval) == timestamp \div interval

\* C39: tick sets the poll notifier only when its timestamp lies in a later
\* poll-interval window than the timestamp of the previous tick, and never
\* clears a notifier that is set
C39_NotifierOncePerWindow ==
    [][ops' # ops /\ ret'.op = "tick" =>
          /\ ~poll.poll_notifier /\ poll'.poll_notifier =>
                Window(ret'.timestamp, ret'.poll_interval)
                    > Window(poll.last_timestamp, ret'.poll_interval)
          /\ poll.poll_notifier => poll'.poll_notifier]_vars

-----------------------------------------------------------------------------
(* start_network and stop_network                                          *)
(*                                                                         *)
(* A task is a record of its kind, its number and its state: "pending"     *)
(* from safe_ensure_future on, "cancelling" once cancel() was called on    *)
(* it, "done" when the event loop has delivered the CancelledError to it.  *)
(* A handle is the empty sequence for None, or holds the number of a task. *)

\* safe_ensure_future(coroutine of this kind): a new pending task, held by
\* the handle of its kind
safe_ensure_future(n, kind) ==
    LET id == Cardinality(n.tasks) + 1
    IN [n EXCEPT !.tasks = @ \cup {[kind |-> kind, id |-> id, state |-> "pending"]},
                 !.handles[kind] = <<id>>]

\* task.cancel() on the tasks these handles hold; a task that is done
\* stays done
Cancel(tasks, handles, kinds) ==
    {IF t.state = "pending" /\ t.kind \in kinds /\ handles[t.kind] = <<t.id>>
     THEN [t EXCEPT !.state = "cancelling"] ELSE t : t \in tasks}

\* a variant that drops the handle of the status-polling task without
\* cancelling the task
stop_network_KeepPolling(n) ==
    [n EXCEPT !.order_book_tracker = "stopped",
              !.tasks = Cancel(@, n.handles, TaskKinds \ {"status_polling"}),
              !.handles = [k \in TaskKinds |-> <<>>]]

stop_network(n) ==
    [n EXCEPT !.order_book_tracker = "stopped",
              !.tasks = Cancel(@, n.handles, {k \in TaskKinds : n.handles[k] # <<>>}),
              !.handles = [k \in TaskKinds |-> <<>>]]

\* start_network: stop_network has no await of its own, so the call runs
\* to its end without suspension
start_network(n) ==
    LET stopped == [stop_network(n) EXCEPT !.order_book_tracker = "started"]
        rules == safe_ensure_future(stopped, "trading_rules_polling")
    IN IF n.trading_required
       THEN safe_ensure_future(
                safe_ensure_future(
                    safe_ensure_future(rules, "status_polling"),
                    "user_stream_tracker"),
                "user_stream_event_listener")
       ELSE rules

\* a step of the network side
NetworkOp ==
    /\ ops < MaxOps
    /\ ops' = ops + 1
    /\ UNCHANGED <<orders, in_flight_orders, events, order_lock, pc, issued, task, output, order_book, namespace, poll>>

StartNetwork ==
    /\ network' = start_network(network)
    /\ ret' = [op |-> "start_network"]
    /\ NetworkOp

StopNetwork ==
    /\ network' = stop_network(network)
    /\ ret' = [op |-> "stop_network"]
    /\ NetworkOp

\* the event loop runs a task on which cancel() was called: each of the four
\* loops re-raises CancelledError, and the task is done
TaskCancelled ==
    /\ \E t \in network.tasks :
         /\ t.state = "cancelling"
         /\ network' = [network EXCEPT !.tasks = (@ \ {t}) \cup {[t EXCEPT !.state = "done"]}]
    /\ ret' = [op |-> "task_cancelled"]
    /\ NetworkOp

\* the exchange is constructed with trading_required true or false
InitNetwork ==
    /\ orders = [o \in OrderIds |-> None]
    /\ in_flight_orders = <<>>
    /\ events = [o \in OrderIds |-> NoEvents]
    /\ order_lock = FALSE
    /\ pc = Idle
    /\ issued = {}
    /\ ret = NoRet
    /\ ops = 0
    /\ task = NoTask
    /\ output = <<>>
    /\ order_book = NoBook
    /\ namespace = NoNamespace
    /\ poll = NoPoll
    /\ \E trading_required \in BOOLEAN :
         network = [NoNetwork EXCEPT !.trading_required = trading_required]

NextNetwork ==
    \/ StartNetwork
    \/ StopNetwork
    \/ TaskCancelled

SpecNetwork == InitNetwork /\ [][NextNetwork]_vars

\* the tasks of a kind on which cancel() was not called
Live(kind) == {t \in network.tasks : t.kind = kind /\ t.state = "pending"}

\* C40: after any sequence of start_network and stop_network calls at most
\* one task of each of the four kinds is live, and it is the task its
\* handle holds; after stop_network no task is live and every handle is
\* None, and a second stop_network changes nothing; with trading_required
\* false no status-polling, user-stream tracker or listener task exists
C40_AtMostOneTaskPerKind ==
    /\ \A k \in TaskKinds :
         /\ Cardinality(Live(k)) <= 1
         /\ \A t \in Live(k) : network.handles[k] = <<t.id>>
         /\ network.handles[k] # <<>> => \E t \in Live(k) : network.handles[k] = <<t.id>>
    /\ ret.op = "stop_network" =>
         /\ \A k \in TaskKinds : Live(k) = {} /\ network.handles[k] = <<>>
         /\ stop_network(network) = network
    /\ ~network.trading_required =>
         \A t \in network.tasks : t.kind = "trading_rules_polling"

\* the network was started twice: the four tasks of the first start were
\* cancelled and the four of the second start are live
C40_Witness ==
    /\ ret.op = "start_network"
    /\ network.trading_required
    /\ Cardinality(network.tasks) = 8
    /\ \A k \in TaskKinds : Cardinality(Live(k)) = 1
    /\ Cardinality({t \in network.tasks : t.state # "pending"}) = 4

====
